---------------------------- MODULE Spec2Model ----------------------------
(***************************************************************************)
(* A model of the MRIStep outer stepper of ARKode                          *)
(* (src/src/arkode/arkode_mristep.c): coupling-table validation, stage     *)
(* classification, mriStep_Init, mriStep_FullRHS and mriStep_TakeStep.     *)
(*                                                                         *)
(* Representation of numbers.  Table entries (c, G) are integers counted   *)
(* in units of tol = 100*UNIT_ROUNDOFF, so tol is 1 and the real number    *)
(* 1.0 is Scale units.  Times are counted in the same unit (h is a whole   *)
(* number of unit steps).  Vectors have one component, an integer.         *)
(***************************************************************************)
EXTENDS Integers, Sequences, FiniteSets, TLC

(***************************************************************************)
(* Bounds of the model.                                                    *)
(***************************************************************************)
MaxStages == 3
MaxNmat == 2
Scale == 4
MaxSteps == 2
VecMod == 3
MaxDense == 1
MaxResets == 2

(***************************************************************************)
(* Program constants.                                                      *)
(***************************************************************************)
tol == 1
ONE == Scale

NULL == "NULL"

(* A null array (F, stagetypes, rkcoeffs, forcing) or a null vector (sdata, *)
(* zpred, zcor); an allocated vector of the latter kind is <<value>>.       *)
NoVec == <<>>

(* step_mem->MRIC = NULL. *)
NullTable == [stages |-> 0, nmat |-> 0, q |-> 0, p |-> 0, c |-> <<>>, G |-> <<>>]

SUNRabs(x) == IF x < 0 THEN -x ELSE x

RECURSIVE SumFn(_, _)
SumFn(f, n) == IF n = 0 THEN 0 ELSE f[n - 1] + SumFn(f, n - 1)

(***************************************************************************)
(* The coupling structure MRIStepCoupling: stages, nmat, q, p,             *)
(* c[0..stages-1] and G[0..nmat-1][0..stages-1][0..stages-1].              *)
(*                                                                         *)
(* Tables are built from a vector of abscissae and one perturbation of an  *)
(* MIS-like lower-triangular pattern.  Entries of matrix k carry the sign  *)
(* (-1)^k, so that sums of magnitudes differ from plain sums.              *)
(***************************************************************************)
Sign(k) == IF k % 2 = 0 THEN 1 ELSE -1

NoPert == [kind |-> "none", i |-> 0, j |-> 0, v |-> 0, i2 |-> 0, j2 |-> 0]

UpperPos(s) == {pos \in (0..(s - 1)) \X (0..(s - 1)) : pos[2] > pos[1]}

PertSet(s) ==
    {NoPert}
    \cup {[kind |-> "diag", i |-> i, j |-> i, v |-> v, i2 |-> 0, j2 |-> 0] :
            i \in 0..(s - 1), v \in {tol, 2 * tol}}
    \cup {[kind |-> "upper", i |-> 0, j |-> 0, v |-> v, i2 |-> pos[1], j2 |-> pos[2]] :
            pos \in UpperPos(s), v \in {tol, 2 * tol}}
    \cup {[kind |-> "both", i |-> i, j |-> i, v |-> 2 * tol, i2 |-> pos[1], j2 |-> pos[2]] :
            i \in 1..(s - 1), pos \in UpperPos(s)}

Entry(cc, pert, k, i, j) ==
    IF j > i
    THEN IF pert.kind \in {"upper", "both"} /\ pert.i2 = i /\ pert.j2 = j
         THEN Sign(k) * pert.v ELSE 0
    ELSE IF j = i
    THEN IF pert.kind \in {"diag", "both"} /\ pert.i = i
         THEN Sign(k) * pert.v ELSE 0
    ELSE IF k = 0 /\ j = i - 1 THEN cc[i] - cc[i - 1]
    ELSE IF k > 0 /\ j = 0 THEN Sign(k) * tol
    ELSE 0

MkTable(s, nm, qq, pp, cc, pert) ==
    [stages |-> s, nmat |-> nm, q |-> qq, p |-> pp, c |-> cc,
     G |-> [k \in 0..(nm - 1) |-> [i \in 0..(s - 1) |-> [j \in 0..(s - 1) |->
              Entry(cc, pert, k, i, j)]]]]

CSet == {0, tol, ONE - 2 * tol, ONE - tol, ONE}

(* The (q, p, fixedstep) combinations the checks are run with. *)
OrderSet == {<<3, 1, TRUE>>, <<0, 1, TRUE>>, <<3, 0, FALSE>>, <<3, 0, TRUE>>}

(* Tables for the checks of the pure functions. *)
CheckTables(qq, pp) ==
    UNION {{MkTable(s, nm, qq, pp, cc, pert) :
              nm \in 1..MaxNmat, cc \in [0..(s - 1) -> CSet], pert \in PertSet(s)} :
           s \in 0..MaxStages}

(***************************************************************************)
(* mriStep_StageType: the type of stage is, or ARK_INVALID_TABLE when is   *)
(* is not in 1..stages-1.                                                  *)
(***************************************************************************)
(* Variant: a value equal to tol counts as nonzero. *)
mriStep_StageType_AtTol(MRIC, is) ==
    IF is < 1 \/ is >= MRIC.stages THEN "ARK_INVALID_TABLE"
    ELSE LET Gabs == SumFn([i \in 0..(MRIC.nmat - 1) |-> SUNRabs(MRIC.G[i][is][is])],
                           MRIC.nmat)
             cdiff == MRIC.c[is] - MRIC.c[is - 1]
         IN  IF Gabs >= tol
             THEN IF cdiff >= tol THEN "MRISTAGE_DIRK_FAST" ELSE "MRISTAGE_DIRK_NOFAST"
             ELSE IF cdiff >= tol THEN "MRISTAGE_ERK_FAST" ELSE "MRISTAGE_ERK_NOFAST"

mriStep_StageType(MRIC, is) ==
    IF is < 1 \/ is >= MRIC.stages THEN "ARK_INVALID_TABLE"
    ELSE LET Gabs == SumFn([i \in 0..(MRIC.nmat - 1) |-> SUNRabs(MRIC.G[i][is][is])],
                           MRIC.nmat)
             cdiff == MRIC.c[is] - MRIC.c[is - 1]
         IN  IF Gabs > tol
             THEN IF cdiff > tol THEN "MRISTAGE_DIRK_FAST" ELSE "MRISTAGE_DIRK_NOFAST"
             ELSE IF cdiff > tol THEN "MRISTAGE_ERK_FAST" ELSE "MRISTAGE_ERK_NOFAST"

(***************************************************************************)
(* The sums of magnitudes mriStep_CheckCoupling accumulates in Gabs.       *)
(***************************************************************************)
(* Variant: the largest strictly-upper magnitude in place of their sum. *)
UpperGabs_Largest(MRIC, stages) ==
    LET up == {SUNRabs(MRIC.G[e[1]][e[2]][e[3]]) :
                   e \in {x \in (0..(MRIC.nmat - 1)) \X (0..(stages - 1)) \X (0..(stages - 1)) :
                            x[3] > x[2]}}
    IN  IF up = {} THEN 0 ELSE CHOOSE m \in up : \A n \in up : n <= m

UpperGabs(MRIC, stages) ==
    SumFn([k \in 0..(MRIC.nmat - 1) |->
             SumFn([i \in 0..(stages - 1) |->
                      SumFn([j \in 0..(stages - 1) |->
                               IF j > i THEN SUNRabs(MRIC.G[k][i][j]) ELSE 0],
                            stages)],
                   stages)],
          MRIC.nmat)

FirstGabs(MRIC, stages) ==
    SUNRabs(MRIC.c[0])
    + SumFn([k \in 0..(MRIC.nmat - 1) |->
               SumFn([j \in 0..(stages - 1) |-> SUNRabs(MRIC.G[k][0][j])], stages)],
            MRIC.nmat)

Fail(msg) == [flag |-> "ARK_INVALID_TABLE", msg |-> msg]

(* Variant: the abscissa of the last stage is not checked. *)
mriStep_CheckCoupling_NoFinalTime(stages, q, p, MRIC, fixedstep) ==
    IF stages < 1 THEN Fail("stages < 1!")
    ELSE IF q < 1 THEN Fail("method order < 1")
    ELSE IF p < 1 /\ ~fixedstep THEN Fail("embedding order < 1")
    ELSE IF UpperGabs(MRIC, stages) > tol
         THEN Fail("Coupling can be up to DIRK (at most)!")
    ELSE IF \E i \in 0..(stages - 1) : mriStep_StageType(MRIC, i) = "MRISTAGE_DIRK_FAST"
         THEN Fail("solve-coupled DIRK stages not currently supported")
    ELSE IF \E i \in 1..(stages - 1) : MRIC.c[i] - MRIC.c[i - 1] < -tol
         THEN Fail("Stage times must be sorted.")
    ELSE IF FirstGabs(MRIC, stages) > tol
         THEN Fail("First stage must equal old solution.")
    ELSE [flag |-> "ARK_SUCCESS", msg |-> ""]

(* Variant: the abscissae are checked for order before the matrices. *)
mriStep_CheckCoupling_SortedFirst(stages, q, p, MRIC, fixedstep) ==
    IF stages < 1 THEN Fail("stages < 1!")
    ELSE IF q < 1 THEN Fail("method order < 1")
    ELSE IF p < 1 /\ ~fixedstep THEN Fail("embedding order < 1")
    ELSE IF \E i \in 1..(stages - 1) : MRIC.c[i] - MRIC.c[i - 1] < -tol
         THEN Fail("Stage times must be sorted.")
    ELSE IF UpperGabs(MRIC, stages) > tol
         THEN Fail("Coupling can be up to DIRK (at most)!")
    ELSE IF \E i \in 0..(stages - 1) : mriStep_StageType(MRIC, i) = "MRISTAGE_DIRK_FAST"
         THEN Fail("solve-coupled DIRK stages not currently supported")
    ELSE IF FirstGabs(MRIC, stages) > tol
         THEN Fail("First stage must equal old solution.")
    ELSE IF SUNRabs(ONE - MRIC.c[stages - 1]) > tol
         THEN Fail("Final stage time must be equal 1.")
    ELSE [flag |-> "ARK_SUCCESS", msg |-> ""]

(* Variant: solve-coupled DIRK stages are let through. *)
mriStep_CheckCoupling_NoStageTypes(stages, q, p, MRIC, fixedstep) ==
    IF stages < 1 THEN Fail("stages < 1!")
    ELSE IF q < 1 THEN Fail("method order < 1")
    ELSE IF p < 1 /\ ~fixedstep THEN Fail("embedding order < 1")
    ELSE IF UpperGabs(MRIC, stages) > tol
         THEN Fail("Coupling can be up to DIRK (at most)!")
    ELSE IF \E i \in 1..(stages - 1) : MRIC.c[i] - MRIC.c[i - 1] < -tol
         THEN Fail("Stage times must be sorted.")
    ELSE IF FirstGabs(MRIC, stages) > tol
         THEN Fail("First stage must equal old solution.")
    ELSE IF SUNRabs(ONE - MRIC.c[stages - 1]) > tol
         THEN Fail("Final stage time must be equal 1.")
    ELSE [flag |-> "ARK_SUCCESS", msg |-> ""]

(***************************************************************************)
(* mriStep_CheckCoupling, on the stepper's stages, q, p and table, and the *)
(* host's fixedstep: the return value and the message reported.            *)
(***************************************************************************)
mriStep_CheckCoupling(stages, q, p, MRIC, fixedstep) ==
    IF stages < 1 THEN Fail("stages < 1!")
    ELSE IF q < 1 THEN Fail("method order < 1")
    ELSE IF p < 1 /\ ~fixedstep THEN Fail("embedding order < 1")
    ELSE IF UpperGabs(MRIC, stages) > tol
         THEN Fail("Coupling can be up to DIRK (at most)!")
    ELSE IF \E i \in 0..(stages - 1) : mriStep_StageType(MRIC, i) = "MRISTAGE_DIRK_FAST"
         THEN Fail("solve-coupled DIRK stages not currently supported")
    ELSE IF \E i \in 1..(stages - 1) : MRIC.c[i] - MRIC.c[i - 1] < -tol
         THEN Fail("Stage times must be sorted.")
    ELSE IF FirstGabs(MRIC, stages) > tol
         THEN Fail("First stage must equal old solution.")
    ELSE IF SUNRabs(ONE - MRIC.c[stages - 1]) > tol
         THEN Fail("Final stage time must be equal 1.")
    ELSE [flag |-> "ARK_SUCCESS", msg |-> ""]

(***************************************************************************)
(* mriStep_RKCoeffs: the effective RK row of stage is.  Arow[j] is counted *)
(* in units of tol/RKDen(nmat), which keeps the divisions by k+1 exact.    *)
(***************************************************************************)
RECURSIVE Lcm1(_, _)
Lcm1(n, m) == IF \A k \in 1..n : m % k = 0 THEN m ELSE Lcm1(n, m + 1)

RKDen(nmat) == Lcm1(nmat, 1)

mriStep_RKCoeffs(MRIC, is) ==
    IF is < 1 \/ is >= MRIC.stages
    THEN [flag |-> "ARK_INVALID_TABLE", Arow |-> <<>>]
    ELSE [flag |-> "ARK_SUCCESS",
          Arow |-> [j \in 0..(MRIC.stages - 1) |->
                      IF j <= is
                      THEN SumFn([k \in 0..(MRIC.nmat - 1) |->
                                    MRIC.G[k][is][j] * (RKDen(MRIC.nmat) \div (k + 1))],
                                 MRIC.nmat)
                      ELSE 0]]

(***************************************************************************)
(* Tables the driver is run with: abscissae that start at 0 and do not     *)
(* decrease, a table whose abscissae climb by tol from stage to stage up   *)
(* to ONE - tol, and the default table.                                    *)
(***************************************************************************)
DriverC(s) ==
    {cc \in [0..(s - 1) -> {0, ONE - 2 * tol, ONE}] :
        /\ cc[0] = 0
        /\ \A i \in 1..(s - 1) : cc[i] >= cc[i - 1]}

DriverPert(s) ==
    {pert \in PertSet(s) :
        \/ pert.kind = "none"
        \/ pert.kind = "diag" /\ pert.v = 2 * tol /\ pert.i >= 1
        \/ pert.kind = "upper" /\ pert.v = 2 * tol /\ pert.i2 = 0 /\ pert.j2 = 1}

ClimbC(s) == [i \in 0..(s - 1) |-> ONE - (s - i) * tol]

DriverTables ==
    UNION {{MkTable(s, MaxNmat, 3, 0, cc, pert) : cc \in DriverC(s), pert \in DriverPert(s)} :
           s \in 1..MaxStages}
    \cup {MkTable(MaxStages, MaxNmat, 3, 0, ClimbC(MaxStages), NoPert)}

(* MRIStepCoupling_LoadTable(DEFAULT_EXPL_MRI_TABLE_3): three stages, explicit. *)
DefaultTable ==
    MkTable(3, 1, 3, 0, [i \in 0..2 |-> IF i = 0 THEN 0 ELSE IF i = 1 THEN ONE - 2 * tol ELSE ONE],
            NoPert)

(***************************************************************************)
(* The user's and the inner stepper's functions, on one-component vectors. *)
(***************************************************************************)
RetSet == {-1, 0, 1}

fsVal(t, y) == (t + y) % VecMod
ffVal(t, y) == (2 * t + y + 1) % VecMod
psVal(t, y) == (y + 1) % VecMod
evolveVal(t0, tout, y, forcing, nforcing) ==
    (y + (tout - t0) + SumFn([k \in 0..(nforcing - 1) |-> forcing[k].num], nforcing)) % VecMod
nlsVal(zpred, sdata, gamma) == (zpred + sdata + gamma) % VecMod

(***************************************************************************)
(* State.                                                                  *)
(*   step_mem  ARKodeMRIStepMem                                            *)
(*   ark_mem   the fields of ARKodeMem the stepper reads and writes        *)
(*   stepper   MRIStepInnerStepper                                         *)
(*   pc        where the host is: "created", "wasreset" and "wasreinit"    *)
(*             (after MRIStepReset and MRIStepReInit), "setup", "ready",   *)
(*             inside                                                      *)
(*             mriStep_TakeStep ("stage", "process", "reset", "rhs"),      *)
(*             "complete", "failed"                                        *)
(*   is        the stage index of mriStep_TakeStep                         *)
(*   lastcall, retval, errmsg, mode   the last call of the stepper that    *)
(*             returned, its return value, the message of                  *)
(*             mriStep_CheckCoupling, and the mode of mriStep_FullRHS      *)
(*   fvec      the host vector mriStep_FullRHS fills                       *)
(*   log       the callbacks made by the call in progress (or the last)    *)
(*   entry     step_mem.nfs, step_mem.F and fvec when that call began      *)
(*   dense     the number of dense-output calls of mriStep_FullRHS         *)
(*   heap      the blocks of memory the module has allocated and not freed *)
(***************************************************************************)
VARIABLES step_mem, ark_mem, stepper, pc, is, lastcall, retval, errmsg, mode,
          fvec, log, entry, dense, heap

vars == <<step_mem, ark_mem, stepper, pc, is, lastcall, retval, errmsg, mode,
          fvec, log, entry, dense, heap>>

Event(ev, i, t, y) == [ev |-> ev, is |-> i, t |-> t, y |-> y]

(* The call e of a user's function returned r. *)
Returned(e, r) == [ev |-> e.ev, is |-> e.is, t |-> e.t, y |-> e.y, ret |-> r]

Entry0 == [nfs |-> 0, F |-> NoVec, fvec |-> 0, tempv2 |-> 0]

(***************************************************************************)
(* MRIStepCreate, when it succeeds: the memory it returns.  The inner      *)
(* stepper is a wrapped ARKStep (which has a reset function) or a custom   *)
(* one (here one without a reset function).                                *)
(***************************************************************************)
CreateStepMem(inner_step_id) ==
    [fs |-> "fs", MRIC |-> NullTable, stages |-> 0, q |-> 3, p |-> 0,
     implicit |-> FALSE, stagetypes |-> NoVec, rkcoeffs |-> NoVec,
     F |-> NoVec, sdata |-> NoVec, zpred |-> NoVec, zcor |-> NoVec,
     cvals |-> NULL, Xvecs |-> NULL,
     NLS |-> "default", NLSsetup |-> NULL, ownNLS |-> TRUE,
     linit |-> NULL, lsetup |-> NULL, lsolve |-> NULL,
     lfree |-> NULL, lmem |-> NULL,
     nfs |-> 0, nsetups |-> 0, nstlp |-> 0, nls_iters |-> 0,
     pre_inner_evolve |-> NULL, post_inner_evolve |-> NULL,
     stage_predict |-> NULL, predictor |-> 0, istage |-> 0,
     gamma |-> 0, gammap |-> 0, id |-> inner_step_id, stepper |-> "stepper"]

CreateArkMem ==
    [fixedstep |-> FALSE, user_efun |-> FALSE, efun |-> "arkEwtSetSS",
     ProcessStage |-> NULL, interp |-> "interp",
     tn |-> 0, tcur |-> 0, h |-> 1, ycur |-> 1, yn |-> 1, tempv2 |-> 0,
     call_fullrhs |-> FALSE, initsetup |-> TRUE, firststage |-> TRUE,
     nst |-> 0]

(* The inner stepper as MRIStepInnerStepper_Create leaves it, with the     *)
(* operations evolve, fullrhs and reset that have been set.                *)
NewStepper(evolve, fullrhs, reset) ==
    [mem |-> "stepper", ops |-> "ops",
     evolve |-> evolve, fullrhs |-> fullrhs, reset |-> reset,
     forcing |-> NoVec, nforcing |-> 0, vecs |-> NULL, vals |-> NULL, aliases |-> <<>>,
     tshift |-> 0, tscale |-> 0, last_flag |-> 0]

MRIStepCreate(inner_step_id, hasReset) ==
    /\ step_mem = CreateStepMem(inner_step_id)
    /\ ark_mem = CreateArkMem
    /\ stepper = NewStepper("evolve", "fullrhs", IF hasReset THEN "reset" ELSE NULL)

(***************************************************************************)
(* Memory.  A block is named by what holds it and, for the vectors of an   *)
(* array, its index.  Owned is the set of blocks the stepper memory and    *)
(* the inner stepper point to, apart from the records themselves.          *)
(***************************************************************************)
Blk(name, idx) == [blk |-> name, idx |-> idx]

Owned(sm, st) ==
    (IF sm.MRIC # NullTable THEN {Blk("MRIC", 0)} ELSE {})
    \cup (IF sm.stagetypes # NoVec THEN {Blk("stagetypes", 0)} ELSE {})
    \cup (IF sm.rkcoeffs # NoVec THEN {Blk("rkcoeffs", 0)} ELSE {})
    \cup (IF sm.F # NoVec THEN {Blk("F", -1)} \cup {Blk("F", j) : j \in DOMAIN sm.F} ELSE {})
    \cup (IF sm.sdata # NoVec THEN {Blk("sdata", 0)} ELSE {})
    \cup (IF sm.zpred # NoVec THEN {Blk("zpred", 0)} ELSE {})
    \cup (IF sm.zcor # NoVec THEN {Blk("zcor", 0)} ELSE {})
    \cup (IF sm.cvals # NULL THEN {Blk("cvals", 0)} ELSE {})
    \cup (IF sm.Xvecs # NULL THEN {Blk("Xvecs", 0)} ELSE {})
    \cup (IF sm.NLS # NULL /\ sm.ownNLS THEN {Blk("NLS", 0)} ELSE {})
    \cup (IF st.forcing # NoVec
          THEN {Blk("forcing", -1)} \cup {Blk("forcing", k) : k \in DOMAIN st.forcing}
          ELSE {})
    \cup (IF st.vecs # NULL THEN {Blk("vecs", 0)} ELSE {})
    \cup (IF st.vals # NULL THEN {Blk("vals", 0)} ELSE {})

(* The blocks held after a successful MRIStepCreate. *)
CreateHeap ==
    {Blk("ark_mem", 0), Blk("step_mem", 0), Blk("NLS", 0), Blk("stepper", 0), Blk("ops", 0)}

(* A call that frees what it replaces and keeps what it allocates. *)
HeapUpdate == heap' = (heap \ Owned(step_mem, stepper)) \cup Owned(step_mem', stepper')

Init ==
    /\ \/ MRIStepCreate("MRISTEP_ARKSTEP", TRUE)
       \/ MRIStepCreate("MRISTEP_CUSTOM", FALSE)
    /\ pc = "created"
    /\ is = 0
    /\ lastcall = "MRIStepCreate"
    /\ retval = "ARK_SUCCESS"
    /\ errmsg = ""
    /\ mode = 0
    /\ fvec = 0
    /\ log = <<>>
    /\ entry = Entry0
    /\ dense = 0
    /\ heap = CreateHeap

ctl == <<pc, is, lastcall, retval, errmsg, mode, fvec, log, entry, dense>>

(***************************************************************************)
(* The user's calls between MRIStepCreate and the first step.              *)
(***************************************************************************)
MRIStepSetCoupling ==
    /\ pc = "created"
    /\ step_mem.MRIC = NullTable
    /\ \E T \in DriverTables :
          step_mem' = [step_mem EXCEPT !.MRIC = T, !.stages = T.stages,
                                       !.q = T.q, !.p = T.p,
                                       !.implicit =
                                          \E i \in 1..(T.stages - 1) :
                                             mriStep_StageType(T, i) \in
                                                {"MRISTAGE_DIRK_FAST", "MRISTAGE_DIRK_NOFAST"}]
    /\ UNCHANGED <<ark_mem, stepper, ctl>>
    /\ HeapUpdate

MRIStepSetNonlinearSolver ==
    /\ pc = "created"
    /\ step_mem.NLS # "user"
    /\ \E setup \in {NULL, "setup"} :
          step_mem' = [step_mem EXCEPT !.NLS = "user", !.NLSsetup = setup,
                                       !.ownNLS = FALSE]
    /\ UNCHANGED <<ark_mem, stepper, ctl>>
    /\ HeapUpdate

MRIStepSetFixedStep ==
    /\ pc = "created"
    /\ ~ark_mem.fixedstep
    /\ ark_mem' = [ark_mem EXCEPT !.fixedstep = TRUE]
    /\ UNCHANGED <<step_mem, stepper, ctl, heap>>

MRIStepSetPostprocessStageFn ==
    /\ pc = "created"
    /\ ark_mem.ProcessStage = NULL
    /\ ark_mem' = [ark_mem EXCEPT !.ProcessStage = "ProcessStage"]
    /\ UNCHANGED <<step_mem, stepper, ctl, heap>>

MRIStepSetPreInnerFn ==
    /\ pc = "created"
    /\ step_mem.pre_inner_evolve = NULL
    /\ step_mem' = [step_mem EXCEPT !.pre_inner_evolve = "prefn"]
    /\ UNCHANGED <<ark_mem, stepper, ctl, heap>>

MRIStepSetPostInnerFn ==
    /\ pc = "created"
    /\ step_mem.post_inner_evolve = NULL
    /\ step_mem' = [step_mem EXCEPT !.post_inner_evolve = "postfn"]
    /\ UNCHANGED <<ark_mem, stepper, ctl, heap>>

(***************************************************************************)
(* mriStep_AttachLinsol: lfree of a solver already attached is called,     *)
(* the new routines are stored, the linear solver counters are reset.      *)
(***************************************************************************)
(* The memory of the linear solver interface: allocated by the caller of   *)
(* mriStep_AttachLinsol, released by the lfree routine it attaches.        *)
LinsolMem == {"lmem", "lmem2"}

(* step_mem->lfree(arkode_mem), called when lfree is not null. *)
LinsolFree(sm, h) == IF sm.lfree # NULL THEN h \ {Blk(sm.lmem, 0)} ELSE h

(* mriStep_AttachLinsol(arkode_mem, linit, lsetup, lsolve, lfree, type, lmem) *)
AttachLinsol(lmem) ==
    /\ step_mem' = [step_mem EXCEPT !.linit = "linit", !.lsetup = "lsetup",
                                    !.lsolve = "lsolve", !.lfree = "lfree",
                                    !.lmem = lmem, !.nsetups = 0, !.nstlp = 0]
    /\ heap' = LinsolFree(step_mem, heap) \cup {Blk(lmem, 0)}
    /\ UNCHANGED <<ark_mem, stepper, ctl>>

(* The first linear solver is attached. *)
mriStep_AttachLinsol ==
    /\ pc = "created"
    /\ step_mem.lmem = NULL
    /\ AttachLinsol("lmem")

(* Another linear solver is attached in place of the first. *)
ReplaceLinsol ==
    /\ pc = "created"
    /\ step_mem.lmem = "lmem"
    /\ AttachLinsol("lmem2")

MRIStepSetStagePredictFn ==
    /\ pc = "created"
    /\ step_mem.implicit
    /\ step_mem.stage_predict = NULL
    /\ step_mem' = [step_mem EXCEPT !.stage_predict = "stage_predict"]
    /\ UNCHANGED <<ark_mem, stepper, ctl, heap>>

(***************************************************************************)
(* mriStep_SetCoupling: load the default table unless one is set.          *)
(***************************************************************************)
mriStep_SetCoupling(sm) ==
    IF sm.MRIC # NullTable THEN sm
    ELSE [sm EXCEPT !.MRIC = DefaultTable, !.stages = DefaultTable.stages,
                    !.q = DefaultTable.q, !.p = DefaultTable.p]

(***************************************************************************)
(* mriStepInnerStepper_AllocVecs(stepper, count): nforcing, and the        *)
(* forcing, vecs and vals arrays where they are null.                      *)
(***************************************************************************)
ZeroForcing == [num |-> 0, den |-> 1]

(* Variant: a single forcing vector whatever the count. *)
mriStepInnerStepper_AllocVecs_One(st, count) ==
    [st EXCEPT !.nforcing = 1,
               !.forcing = IF st.forcing = NoVec
                           THEN [k \in 0..0 |-> ZeroForcing] ELSE st.forcing,
               !.vecs = IF st.vecs = NULL THEN "vecs" ELSE st.vecs,
               !.vals = IF st.vals = NULL THEN "vals" ELSE st.vals]

mriStepInnerStepper_AllocVecs(st, count) ==
    [st EXCEPT !.nforcing = count,
               !.forcing = IF st.forcing = NoVec
                           THEN [k \in 0..(count - 1) |-> ZeroForcing] ELSE st.forcing,
               !.vecs = IF st.vecs = NULL THEN "vecs" ELSE st.vecs,
               !.vals = IF st.vals = NULL THEN "vals" ELSE st.vals]

(* Variant: an explicit method drops its nonlinear solver whoever owns it. *)
InitAllocate_DropAnyNLS(sm) ==
    LET n  == sm.stages
        s1 == [sm EXCEPT !.q = sm.MRIC.q, !.p = sm.MRIC.p,
                         !.stagetypes = [j \in 0..(n - 1) |-> mriStep_StageType(sm.MRIC, j)],
                         !.rkcoeffs = [j \in 0..(n - 1) |-> 0],
                         !.F = IF sm.F = NoVec THEN [j \in 0..(n - 1) |-> 0] ELSE sm.F]
        s2 == IF s1.implicit
              THEN [s1 EXCEPT !.sdata = IF s1.sdata = NoVec THEN <<0>> ELSE s1.sdata,
                              !.zpred = IF s1.zpred = NoVec THEN <<0>> ELSE s1.zpred,
                              !.zcor = IF s1.zcor = NoVec THEN <<0>> ELSE s1.zcor]
              ELSE [s1 EXCEPT !.NLS = NULL, !.NLSsetup = NULL, !.ownNLS = FALSE,
                              !.linit = NULL, !.lsetup = NULL, !.lsolve = NULL,
                              !.lfree = NULL, !.lmem = NULL]
    IN  [s2 EXCEPT !.cvals = "cvals", !.Xvecs = "Xvecs"]

(***************************************************************************)
(* The part of mriStep_Init (FIRST_INIT) after the coupling table passed   *)
(* mriStep_CheckCoupling: the derived arrays and the stage storage.        *)
(***************************************************************************)
InitAllocate(sm) ==
    LET n  == sm.stages
        s1 == [sm EXCEPT !.q = sm.MRIC.q, !.p = sm.MRIC.p,
                         !.stagetypes = [j \in 0..(n - 1) |-> mriStep_StageType(sm.MRIC, j)],
                         !.rkcoeffs = [j \in 0..(n - 1) |-> 0],
                         !.F = IF sm.F = NoVec THEN [j \in 0..(n - 1) |-> 0] ELSE sm.F]
        s2 == IF s1.implicit
              THEN [s1 EXCEPT !.sdata = IF s1.sdata = NoVec THEN <<0>> ELSE s1.sdata,
                              !.zpred = IF s1.zpred = NoVec THEN <<0>> ELSE s1.zpred,
                              !.zcor = IF s1.zcor = NoVec THEN <<0>> ELSE s1.zcor]
              ELSE [s1 EXCEPT !.NLS = IF s1.NLS # NULL /\ s1.ownNLS THEN NULL ELSE s1.NLS,
                              !.NLSsetup = IF s1.NLS # NULL /\ s1.ownNLS
                                           THEN NULL ELSE s1.NLSsetup,
                              !.ownNLS = IF s1.NLS # NULL /\ s1.ownNLS
                                         THEN FALSE ELSE s1.ownNLS,
                              !.linit = NULL, !.lsetup = NULL, !.lsolve = NULL,
                              !.lfree = NULL, !.lmem = NULL]
    IN  [s2 EXCEPT !.cvals = "cvals", !.Xvecs = "Xvecs"]

(***************************************************************************)
(* mriStep_Init(init_type), called by the host before the first step.      *)
(*                                                                         *)
(* InitFirst is the FIRST_INIT part up to the allocations: the error       *)
(* weight function, the fixed-step requirement, the coupling table and its *)
(* check, the derived arrays and the storage.  It gives the return value,  *)
(* the message reported and the memory as it is left.                      *)
(***************************************************************************)
InitResult(flag, msg, sm, a, st) ==
    [flag |-> flag, msg |-> msg, step_mem |-> sm, ark_mem |-> a, stepper |-> st]

(* Variant: the return value of mriStep_CheckCoupling is passed on. *)
InitFirst_PassCode(sm, a, st) ==
    LET reset_efun == ~sm.implicit /\ ~a.user_efun
        a1  == IF reset_efun
               THEN [a EXCEPT !.user_efun = FALSE, !.efun = "arkEwtSetSmallReal"]
               ELSE a
        sm1 == mriStep_SetCoupling(sm)
        chk == mriStep_CheckCoupling(sm1.stages, sm1.q, sm1.p, sm1.MRIC, a1.fixedstep)
    IN  IF ~a1.fixedstep
        THEN InitResult("ARK_ILL_INPUT",
                        "Adaptive outer time stepping is not currently supported",
                        sm, a1, st)
        ELSE IF chk.flag # "ARK_SUCCESS"
        THEN InitResult(chk.flag, chk.msg, sm1, a1, st)
        ELSE InitResult("ARK_SUCCESS", "", InitAllocate(sm1), a1,
                        mriStepInnerStepper_AllocVecs(st, sm1.MRIC.nmat))

(* Variant: the fixed-step requirement is tested after the table is built. *)
InitFirst_TableFirst(sm, a, st) ==
    LET reset_efun == ~sm.implicit /\ ~a.user_efun
        a1  == IF reset_efun
               THEN [a EXCEPT !.user_efun = FALSE, !.efun = "arkEwtSetSmallReal"]
               ELSE a
        sm1 == mriStep_SetCoupling(sm)
        chk == mriStep_CheckCoupling(sm1.stages, sm1.q, sm1.p, sm1.MRIC, TRUE)
    IN  IF chk.flag # "ARK_SUCCESS"
        THEN InitResult("ARK_ILL_INPUT", chk.msg, sm1, a1, st)
        ELSE IF ~a1.fixedstep
        THEN InitResult("ARK_ILL_INPUT",
                        "Adaptive outer time stepping is not currently supported",
                        sm1, a1, st)
        ELSE InitResult("ARK_SUCCESS", "", InitAllocate(sm1), a1,
                        mriStepInnerStepper_AllocVecs(st, sm1.MRIC.nmat))

InitFirst(sm, a, st) ==
    LET reset_efun == ~sm.implicit /\ ~a.user_efun
        a1  == IF reset_efun
               THEN [a EXCEPT !.user_efun = FALSE, !.efun = "arkEwtSetSmallReal"]
               ELSE a
        sm1 == mriStep_SetCoupling(sm)
        chk == mriStep_CheckCoupling(sm1.stages, sm1.q, sm1.p, sm1.MRIC, a1.fixedstep)
    IN  IF ~a1.fixedstep
        THEN InitResult("ARK_ILL_INPUT",
                        "Adaptive outer time stepping is not currently supported",
                        sm, a1, st)
        ELSE IF chk.flag # "ARK_SUCCESS"
        THEN InitResult("ARK_ILL_INPUT", chk.msg, sm1, a1, st)
        ELSE InitResult("ARK_SUCCESS", "", InitAllocate(sm1), a1,
                        mriStepInnerStepper_AllocVecs(st, sm1.MRIC.nmat))

InitReturn(code, msg, next) ==
    /\ lastcall' = "mriStep_Init"
    /\ retval' = code
    /\ errmsg' = msg
    /\ pc' = next
    /\ log' = <<>>
    /\ UNCHANGED <<is, mode, fvec, entry, dense>>

(* degOK, linitRet and nlsInitOK are the results of arkInterpSetDegree,    *)
(* linit and mriStep_NlsInit when they are called.                         *)
mriStep_Init(init_type) ==
    /\ pc \in (IF init_type = "RESET_INIT" THEN {"wasreset"} ELSE {"created", "wasreinit"})
    /\ IF init_type = "RESET_INIT"
       THEN /\ InitReturn("ARK_SUCCESS", "", "setup")
            /\ UNCHANGED <<step_mem, ark_mem, stepper, heap>>
       ELSE
       LET r == InitFirst(step_mem, ark_mem, stepper)
       IN  /\ step_mem' = r.step_mem
           /\ stepper' = r.stepper
           /\ HeapUpdate
           /\ IF r.flag # "ARK_SUCCESS"
              THEN /\ InitReturn(r.flag, r.msg, "failed")
                   /\ ark_mem' = r.ark_mem
              ELSE \E degOK \in BOOLEAN, linitRet \in {0, -1}, nlsInitOK \in BOOLEAN :
                      /\ (r.ark_mem.interp = NULL => degOK)
                      /\ (r.step_mem.linit = NULL \/ ~degOK => linitRet = 0)
                      /\ (r.step_mem.NLS = NULL \/ ~degOK \/ linitRet # 0 => nlsInitOK)
                      /\ IF ~degOK
                         THEN /\ InitReturn("ARK_ILL_INPUT", "", "failed")
                              /\ ark_mem' = r.ark_mem
                         ELSE IF linitRet # 0
                         THEN /\ InitReturn("ARK_LINIT_FAIL", "", "failed")
                              /\ ark_mem' = r.ark_mem
                         ELSE IF ~nlsInitOK
                         THEN /\ InitReturn("ARK_NLS_INIT_FAIL", "", "failed")
                              /\ ark_mem' = r.ark_mem
                         ELSE /\ InitReturn("ARK_SUCCESS", "", "setup")
                              /\ ark_mem' = [r.ark_mem EXCEPT !.call_fullrhs = TRUE]

(***************************************************************************)
(* mriStep_FullRHS(t, y, f, mode) with t = tcur, y = ycur, f = fvec.       *)
(* rfs and rff are the return values of fs and of the inner stepper's      *)
(* fullrhs function, 0 where the function is not called.  The result is    *)
(* the new step_mem, tempv2, fvec, last_flag, the callbacks made, and the  *)
(* return value.                                                           *)
(***************************************************************************)
ARK_FULLRHS_START == 0
ARK_FULLRHS_END == 1
ARK_FULLRHS_OTHER == 2

FullRHSResult(sm, tempv2, f, last_flag, calls, flag) ==
    [sm |-> sm, tempv2 |-> tempv2, f |-> f, last_flag |-> last_flag,
     calls |-> calls, flag |-> flag]

(* ARK_FULLRHS_START and ARK_FULLRHS_END: the slow RHS goes to F[0]. *)
FullRHS_StartEnd(t, y, m, rfs, rff) ==
    LET sm1 == [step_mem EXCEPT !.nfs = @ + 1]
        sm2 == [sm1 EXCEPT !.F[0] = fsVal(t, y)]
        fsE == Event("fs", m, t, y)
        ffE == Event("inner_fullrhs", ARK_FULLRHS_OTHER, t, y)
    IN  IF rfs # 0
        THEN FullRHSResult(sm1, ark_mem.tempv2, fvec, stepper.last_flag,
                           <<fsE>>, "ARK_RHSFUNC_FAIL")
        ELSE IF rff # 0
        THEN FullRHSResult(sm2, ark_mem.tempv2, fvec, rff,
                           <<fsE, ffE>>, "ARK_RHSFUNC_FAIL")
        ELSE FullRHSResult(sm2, ark_mem.tempv2, sm2.F[0] + ffVal(t, y), rff,
                           <<fsE, ffE>>, "ARK_SUCCESS")

(* ARK_FULLRHS_OTHER: the slow RHS goes to tempv2. *)
FullRHS_Other(t, y, m, rfs, rff) ==
    LET sm1 == [step_mem EXCEPT !.nfs = @ + 1]
        tv  == fsVal(t, y)
        fsE == Event("fs", m, t, y)
        ffE == Event("inner_fullrhs", ARK_FULLRHS_OTHER, t, y)
    IN  IF rfs # 0
        THEN FullRHSResult(sm1, ark_mem.tempv2, fvec, stepper.last_flag,
                           <<fsE>>, "ARK_RHSFUNC_FAIL")
        ELSE IF rff # 0
        THEN FullRHSResult(sm1, tv, fvec, rff, <<fsE, ffE>>, "ARK_RHSFUNC_FAIL")
        ELSE FullRHSResult(sm1, tv, tv + ffVal(t, y), rff, <<fsE, ffE>>, "ARK_SUCCESS")

(* Variant: ARK_FULLRHS_OTHER is treated as the other two modes. *)
mriStep_FullRHS_OneBranch(t, y, m, rfs, rff) ==
    IF m \in {ARK_FULLRHS_START, ARK_FULLRHS_END, ARK_FULLRHS_OTHER}
    THEN FullRHS_StartEnd(t, y, m, rfs, rff)
    ELSE FullRHSResult(step_mem, ark_mem.tempv2, fvec, stepper.last_flag,
                       <<>>, "ARK_RHSFUNC_FAIL")

(* Variant: the switch has no default case. *)
mriStep_FullRHS_NoDefault(t, y, m, rfs, rff) ==
    IF m \in {ARK_FULLRHS_START, ARK_FULLRHS_END} THEN FullRHS_StartEnd(t, y, m, rfs, rff)
    ELSE FullRHS_Other(t, y, m, rfs, rff)

mriStep_FullRHS(t, y, m, rfs, rff) ==
    IF m \in {ARK_FULLRHS_START, ARK_FULLRHS_END} THEN FullRHS_StartEnd(t, y, m, rfs, rff)
    ELSE IF m = ARK_FULLRHS_OTHER THEN FullRHS_Other(t, y, m, rfs, rff)
    ELSE FullRHSResult(step_mem, ark_mem.tempv2, fvec, stepper.last_flag,
                       <<>>, "ARK_RHSFUNC_FAIL")

(***************************************************************************)
(* A call of mriStep_FullRHS(t, y, fvec, m) by the host, whose memory is a *)
(* when it calls; next is where the host goes on success.                  *)
(***************************************************************************)
CallFullRHS(a, t, y, m, next) ==
    \E rfs \in RetSet, rff \in RetSet :
       /\ (m \notin {ARK_FULLRHS_START, ARK_FULLRHS_END, ARK_FULLRHS_OTHER} => rfs = 0)
       /\ (rfs # 0 \/ m \notin {ARK_FULLRHS_START, ARK_FULLRHS_END, ARK_FULLRHS_OTHER}
              => rff = 0)
       /\ LET r == mriStep_FullRHS(t, y, m, rfs, rff)
          IN  /\ step_mem' = r.sm
              /\ ark_mem' = [a EXCEPT !.tempv2 = r.tempv2]
              /\ stepper' = [stepper EXCEPT !.last_flag = r.last_flag]
              /\ fvec' = r.f
              /\ log' = r.calls
              /\ retval' = r.flag
              /\ pc' = IF r.flag = "ARK_SUCCESS" THEN next ELSE "failed"
       /\ entry' = [nfs |-> step_mem.nfs, F |-> step_mem.F, fvec |-> fvec,
                    tempv2 |-> ark_mem.tempv2]
       /\ lastcall' = "mriStep_FullRHS"
       /\ mode' = m
       /\ errmsg' = ""
       /\ UNCHANGED <<is, heap>>

(* arkInitialSetup: the full RHS at the start of the integration. *)
InitialFullRHS ==
    /\ pc = "setup"
    /\ CallFullRHS(ark_mem, ark_mem.tn, ark_mem.yn, ARK_FULLRHS_START, "ready")
    /\ UNCHANGED dense

(* arkCompleteStep: the full RHS at the end of a successful step, at tn + h. *)
CompleteFullRHS ==
    /\ pc = "complete"
    /\ LET a == [ark_mem EXCEPT !.tcur = ark_mem.tn + ark_mem.h * ONE]
       IN  CallFullRHS(a, a.tcur, a.ycur, ARK_FULLRHS_END, "advance")
    /\ UNCHANGED dense

(* Any other call between steps (dense output, root finding), with any mode. *)
DenseFullRHS ==
    /\ pc = "ready"
    /\ dense < MaxDense
    /\ \E m \in 0..3, y \in {ark_mem.ycur, (ark_mem.ycur + 1) % VecMod} :
          CallFullRHS(ark_mem, ark_mem.tcur, y, m, "ready")
    /\ dense' = dense + 1

(* arkCompleteStep: the step is accepted. *)
HostAdvance ==
    /\ pc = "advance"
    /\ ark_mem' = [ark_mem EXCEPT !.nst = @ + 1, !.tn = ark_mem.tcur,
                                  !.yn = ark_mem.ycur, !.initsetup = FALSE]
    /\ pc' = "ready"
    /\ UNCHANGED <<step_mem, stepper, is, lastcall, retval, errmsg, mode, fvec, log,
                   entry, dense, heap>>

(***************************************************************************)
(* mriStep_TakeStep.  The call is modelled in steps: the entry (with the   *)
(* nonlinear solver setup), and for each stage is = 1..stages-1 the stage  *)
(* routine, the stage postprocessing, the inner stepper reset, and the     *)
(* slow right-hand side.                                                   *)
(***************************************************************************)
TakeStepReturn(code, i) ==
    /\ lastcall' = "mriStep_TakeStep"
    /\ retval' = code
    /\ is' = i
    /\ pc' = IF code = "ARK_SUCCESS" THEN "complete" ELSE "failed"

(* The test of the loop over the stages. *)
TakeStepLoop(i) ==
    IF i < step_mem.stages
    THEN /\ pc' = "stage"
         /\ is' = i
         /\ UNCHANGED <<lastcall, retval>>
    ELSE TakeStepReturn("ARK_SUCCESS", i)

(* The stage routine has returned code. *)
StageExit(code) ==
    IF code = "ARK_SUCCESS"
    THEN /\ pc' = "process"
         /\ UNCHANGED <<is, lastcall, retval>>
    ELSE TakeStepReturn(code, is)

(* SUNNonlinSolSetup(NLS, tempv3, ark_mem) with tempv3 = 0 returned r. *)
SetupCall(t, r) == [ev |-> "nls_setup", is |-> 0, t |-> t, y |-> 0, ret |-> r]

(* The start of a step; hasSetup is whether the setup is called. *)
TakeStepStart(hasSetup) ==
    /\ pc = "ready"
    /\ ark_mem.nst < MaxSteps
    /\ entry' = [nfs |-> step_mem.nfs, F |-> step_mem.F, fvec |-> fvec,
                 tempv2 |-> ark_mem.tempv2]
    /\ \E r \in RetSet :
          /\ (~hasSetup => r = 0)
          /\ log' = IF hasSetup THEN <<SetupCall(ark_mem.tcur, r)>> ELSE <<>>
          /\ IF r < 0 THEN TakeStepReturn("ARK_NLS_SETUP_FAIL", 0)
             ELSE IF r > 0 THEN TakeStepReturn("ARK_NLS_SETUP_RECVR", 0)
             ELSE TakeStepLoop(1)
    /\ UNCHANGED <<step_mem, ark_mem, stepper, errmsg, mode, fvec, dense, heap>>

(* Variant: the setup is called when the solver is the stepper's own. *)
TakeStepEntry_OwnedOnly == TakeStepStart(step_mem.NLS # NULL /\ step_mem.ownNLS)

TakeStepEntry == TakeStepStart(step_mem.NLS # NULL /\ step_mem.NLSsetup # NULL)

(* Variant: the sums are not scaled by rcdiff = 1/cdiff. *)
mriStep_ComputeInnerForcing_NoRcdiff(sm, st, i, cdiff) ==
    [k \in DOMAIN st.forcing |->
        IF k < sm.MRIC.nmat
        THEN [num |-> SumFn([j \in 0..(i - 1) |-> sm.MRIC.G[k][i][j] * sm.F[j]], i),
              den |-> 1]
        ELSE st.forcing[k]]

(* forcing[k] = (1/cdiff) * sum_{j<i} G[k][i][j] * F[j], k = 0..nmat-1. *)
mriStep_ComputeInnerForcing(sm, st, i, cdiff) ==
    [k \in DOMAIN st.forcing |->
        IF k < sm.MRIC.nmat
        THEN [num |-> SumFn([j \in 0..(i - 1) |-> sm.MRIC.G[k][i][j] * sm.F[j]], i),
              den |-> cdiff]
        ELSE st.forcing[k]]

(* Variant: every nonzero return of the evolve is a failure. *)
ERKFastCode_NonzeroFails(rPre, rEv, rPost) ==
    IF rPre # 0 THEN "ARK_OUTERTOINNER_FAIL"
    ELSE IF rEv # 0 THEN "ARK_INNERSTEP_FAIL"
    ELSE IF rPost # 0 THEN "ARK_INNERTOOUTER_FAIL"
    ELSE "ARK_SUCCESS"

(* What an ERK_FAST stage returns when pre_inner_evolve, the evolve of the *)
(* inner stepper and post_inner_evolve return rPre, rEv and rPost.         *)
ERKFastCode(rPre, rEv, rPost) ==
    IF rPre # 0 THEN "ARK_OUTERTOINNER_FAIL"
    ELSE IF rEv < 0 THEN "ARK_INNERSTEP_FAIL"
    ELSE IF rPost # 0 THEN "ARK_INNERTOOUTER_FAIL"
    ELSE "ARK_SUCCESS"

(* Variant: post_inner_evolve is called whatever the evolve returned. *)
ERKFastCalls_PostAlways(hasPre, hasPost, preE, evE, postE) ==
    (IF hasPre THEN <<preE>> ELSE <<>>)
    \o (IF preE.ret = 0 THEN <<evE>> ELSE <<>>)
    \o (IF preE.ret = 0 /\ hasPost THEN <<postE>> ELSE <<>>)

(* The calls an ERK_FAST stage makes, in order. *)
ERKFastCalls(hasPre, hasPost, preE, evE, postE) ==
    (IF hasPre THEN <<preE>> ELSE <<>>)
    \o (IF preE.ret = 0 THEN <<evE>> ELSE <<>>)
    \o (IF preE.ret = 0 /\ evE.ret >= 0 /\ hasPost THEN <<postE>> ELSE <<>>)

(* pre_inner_evolve(t0, forcing, nforcing, user_data) returned r. *)
PreInnerCall(i, t0, y, st, r) ==
    [ev |-> "pre_inner_evolve", is |-> i, t |-> t0, y |-> y, ret |-> r,
     forcing |-> st.forcing, nforcing |-> st.nforcing]

(* The evolve function of the inner stepper st, called with (t0, tout, y), *)
(* returned r.                                                             *)
EvolveCall(i, t0, tout, y, st, r) ==
    [ev |-> "evolve", is |-> i, t |-> t0, y |-> y, tout |-> tout, ret |-> r,
     forcing |-> st.forcing, nforcing |-> st.nforcing,
     tshift |-> st.tshift, tscale |-> st.tscale]

mriStep_StageERKFast(a0) ==
    LET t0    == a0.tn + step_mem.MRIC.c[is - 1] * a0.h
        cdiff == step_mem.MRIC.c[is] - step_mem.MRIC.c[is - 1]
        st1   == [stepper EXCEPT
                    !.forcing = mriStep_ComputeInnerForcing(step_mem, stepper, is, cdiff),
                    !.tshift = t0, !.tscale = cdiff * a0.h]
        hasPre  == step_mem.pre_inner_evolve # NULL
        hasPost == step_mem.post_inner_evolve # NULL
        ynew  == evolveVal(t0, a0.tcur, a0.ycur, st1.forcing, st1.nforcing)
    IN  \E rPre \in RetSet, rEv \in RetSet, rPost \in RetSet :
           /\ (~hasPre => rPre = 0)
           /\ (rPre # 0 => rEv = 0)
           /\ (~hasPost \/ rPre # 0 \/ rEv < 0 => rPost = 0)
           /\ UNCHANGED step_mem
           /\ stepper' = IF rPre # 0 THEN st1 ELSE [st1 EXCEPT !.last_flag = rEv]
           /\ ark_mem' = IF rPre # 0 \/ rEv < 0 THEN a0 ELSE [a0 EXCEPT !.ycur = ynew]
           /\ log' = log \o ERKFastCalls(hasPre, hasPost,
                                         PreInnerCall(is, t0, a0.ycur, st1, rPre),
                                         EvolveCall(is, t0, a0.tcur, a0.ycur, st1, rEv),
                                         Returned(Event("post_inner_evolve", is, a0.tcur,
                                                        ynew), rPost))
           /\ StageExit(ERKFastCode(rPre, rEv, rPost))

(* ycur = ycur + h * sum_{j<is} rkcoeffs[j] * F[j] *)
mriStep_StageERKNoFast(a0) ==
    LET rk == mriStep_RKCoeffs(step_mem.MRIC, is)
    IN  /\ UNCHANGED <<stepper, log>>
        /\ IF rk.flag # "ARK_SUCCESS"
           THEN /\ ark_mem' = a0
                /\ UNCHANGED step_mem
                /\ StageExit(rk.flag)
           ELSE /\ step_mem' = [step_mem EXCEPT !.rkcoeffs = rk.Arow]
                /\ ark_mem' = [a0 EXCEPT !.ycur =
                      a0.ycur + SumFn([j \in 0..(is - 1) |->
                                          rk.Arow[j] * a0.h * step_mem.F[j]], is)]
                /\ StageExit("ARK_SUCCESS")

mriStep_StageDIRKFast(a0) ==
    /\ ark_mem' = a0
    /\ UNCHANGED <<step_mem, stepper, log>>
    /\ StageExit("ARK_INVALID_TABLE")

(***************************************************************************)
(* mriStep_Predict(ark_mem, istage, yguess): the set of possible results.  *)
(* The interpolation-based predictors arkPredict_* return success (with a  *)
(* guess), ARK_ILL_INPUT, or another error.                                *)
(***************************************************************************)
PredictRet == {"ARK_SUCCESS", "ARK_ILL_INPUT", "ARK_MEM_NULL", "ARK_VECTOROP_ERR"}

interpVal(a, tau) == (a.yn + tau) % VecMod

(* pret is the value the interpolation routine returned, "NONE" when none *)
(* was called.                                                            *)
TrivialPredict(a) == [flag |-> "ARK_SUCCESS", yguess |-> a.yn, pret |-> "NONE"]

(* Variant: every error of the interpolation routine gives the trivial predictor. *)
PredictWith_AnyError(a, old, guess) ==
    {IF r = "ARK_SUCCESS" THEN [flag |-> r, yguess |-> guess, pret |-> r]
     ELSE [TrivialPredict(a) EXCEPT !.pret = r] : r \in PredictRet}

(* retval = arkPredict_*(...); if (retval != ARK_ILL_INPUT) return(retval); break; *)
PredictWith(a, old, guess) ==
    {IF r = "ARK_SUCCESS" THEN [flag |-> r, yguess |-> guess, pret |-> r]
     ELSE IF r = "ARK_ILL_INPUT" THEN [TrivialPredict(a) EXCEPT !.pret = r]
     ELSE [flag |-> r, yguess |-> old, pret |-> r] : r \in PredictRet}

(* Variant: only stages whose abscissa is below that of istage qualify. *)
BootstrapStage_Below(MRIC, istage) ==
    LET nz == {i \in 0..(istage - 1) : MRIC.c[i] # 0 /\ MRIC.c[i] < MRIC.c[istage]}
    IN  IF nz = {} THEN -1
        ELSE CHOOSE i \in nz : \A k \in nz : MRIC.c[k] <= MRIC.c[i]

(* The stage the bootstrap predictor uses, -1 for none. *)
BootstrapStage(MRIC, istage) ==
    LET nz == {i \in 0..(istage - 1) : MRIC.c[i] # 0}
    IN  IF nz = {} THEN -1
        ELSE CHOOSE i \in nz :
               /\ \A k \in nz : MRIC.c[k] <= MRIC.c[i]
               /\ \A k \in nz : MRIC.c[k] = MRIC.c[i] =>
                     (IF \E m \in nz : MRIC.c[m] < MRIC.c[i] THEN i <= k ELSE i >= k)

mriStep_Predict(a, sm, istage, old) ==
    IF a.interp = NULL /\ sm.predictor > 0
    THEN {[flag |-> "ARK_MEM_NULL", yguess |-> old, pret |-> "NONE"]}
    ELSE IF a.initsetup THEN {TrivialPredict(a)}
    ELSE IF sm.predictor \in 1..3
    THEN PredictWith(a, old, interpVal(a, sm.MRIC.c[istage]))
    ELSE IF sm.predictor = 4
    THEN LET jstage == BootstrapStage(sm.MRIC, istage)
         IN  IF jstage = -1 THEN {TrivialPredict(a)}
             ELSE PredictWith(a, old, interpVal(a, sm.MRIC.c[istage] + sm.F[jstage]))
    ELSE {TrivialPredict(a)}

(* mriStep_StageSetup: gamma, gammap and the stage data sdata. *)
(* Variant: the stage data take in the slow right-hand side of the stage itself. *)
mriStep_StageSetup_UpToStage(a, sm) ==
    LET i  == sm.istage
        Ai == sm.rkcoeffs
        s1 == IF sm.implicit
              THEN [sm EXCEPT !.gamma = a.h * Ai[i],
                              !.gammap = IF a.firststage THEN a.h * Ai[i] ELSE @]
              ELSE sm
    IN  [s1 EXCEPT !.sdata = <<a.ycur - sm.zpred[1]
                               + SumFn([j \in 0..i |-> a.h * Ai[j] * sm.F[j]], i + 1)>>]

mriStep_StageSetup(a, sm) ==
    LET i  == sm.istage
        Ai == sm.rkcoeffs
        s1 == IF sm.implicit
              THEN [sm EXCEPT !.gamma = a.h * Ai[i],
                              !.gammap = IF a.firststage THEN a.h * Ai[i] ELSE @]
              ELSE sm
    IN  [s1 EXCEPT !.sdata = <<a.ycur - sm.zpred[1]
                               + SumFn([j \in 0..(i - 1) |-> a.h * Ai[j] * sm.F[j]], i)>>]

stagePredictVal(t, z) == (z + t + 1) % VecMod

(***************************************************************************)
(* Variant: a failing stage_predict gives one code whatever its sign. *)
StagePredictCode_OneCode(r) ==
    IF r # 0 THEN "ARK_USER_PREDICT_FAIL" ELSE "ARK_SUCCESS"

(* What the stage returns when the user's stage_predict returned r. *)
StagePredictCode(r) ==
    IF r < 0 THEN "ARK_USER_PREDICT_FAIL"
    ELSE IF r > 0 THEN "TRY_AGAIN"
    ELSE "ARK_SUCCESS"

(* mriStep_StageDIRKNoFast.  rSP is the return value of the user's stage   *)
(* predictor; the nonlinear solve evaluates fs nfsN times and converges or *)
(* does not.                                                               *)
(***************************************************************************)
mriStep_StageDIRKNoFast(a0) ==
    LET sm0 == [step_mem EXCEPT !.istage = is]
        hasSP == step_mem.stage_predict # NULL
    IN  /\ UNCHANGED stepper
        /\ \E pr \in mriStep_Predict(a0, sm0, is, sm0.zpred[1]),
              rSP \in RetSet, nfsN \in 0..1, conv \in BOOLEAN :
              LET sm1 == [sm0 EXCEPT !.zpred = <<pr.yguess>>]
                  spE == Event("stage_predict", is, a0.tcur, pr.yguess)
                  sm2 == IF hasSP
                         THEN [sm1 EXCEPT !.zpred = <<stagePredictVal(a0.tcur, pr.yguess)>>]
                         ELSE sm1
                  rk  == mriStep_RKCoeffs(sm2.MRIC, is)
                  sm3 == mriStep_StageSetup(a0, [sm2 EXCEPT !.rkcoeffs = rk.Arow])
                  sm4 == [sm3 EXCEPT !.nfs = @ + nfsN, !.nls_iters = @ + 1,
                                     !.zcor = IF conv
                                              THEN <<nlsVal(sm3.zpred[1], sm3.sdata[1],
                                                            sm3.gamma) - sm3.zpred[1]>>
                                              ELSE @]
                  nlsE == <<Event("nls", is, a0.tcur, a0.ycur)>>
                          \o (IF nfsN = 1 THEN <<Event("nls_fs", is, a0.tcur, a0.ycur)>>
                              ELSE <<>>)
              IN  /\ (pr.flag # "ARK_SUCCESS" \/ ~hasSP => rSP = 0)
                  /\ (pr.flag # "ARK_SUCCESS" \/ rSP # 0 \/ rk.flag # "ARK_SUCCESS"
                         => nfsN = 0 /\ conv)
                  /\ IF pr.flag # "ARK_SUCCESS"
                     THEN /\ step_mem' = sm1
                          /\ ark_mem' = a0
                          /\ UNCHANGED log
                          /\ StageExit(pr.flag)
                     ELSE IF rSP # 0
                     THEN /\ step_mem' = sm1
                          /\ ark_mem' = a0
                          /\ log' = log \o <<Returned(spE, rSP)>>
                          /\ StageExit(StagePredictCode(rSP))
                     ELSE IF rk.flag # "ARK_SUCCESS"
                     THEN /\ step_mem' = sm2
                          /\ ark_mem' = a0
                          /\ log' = log \o (IF hasSP THEN <<Returned(spE, rSP)>> ELSE <<>>)
                          /\ StageExit(rk.flag)
                     ELSE /\ step_mem' = sm4
                          /\ ark_mem' = IF conv
                                        THEN [a0 EXCEPT !.ycur = sm3.zpred[1] + sm4.zcor[1],
                                                        !.firststage = FALSE]
                                        ELSE a0
                          /\ log' = log \o (IF hasSP THEN <<Returned(spE, rSP)>> ELSE <<>>) \o nlsE
                          /\ StageExit(IF conv THEN "ARK_SUCCESS" ELSE "TRY_AGAIN")

(* The stage routine of stage is: tcur is set, then the switch on stagetypes[is]. *)
TakeStepStage ==
    /\ pc = "stage"
    /\ LET a0 == [ark_mem EXCEPT !.tcur = ark_mem.tn + step_mem.MRIC.c[is] * ark_mem.h]
           ty == step_mem.stagetypes[is]
       IN  IF ty = "MRISTAGE_ERK_FAST" THEN mriStep_StageERKFast(a0)
           ELSE IF ty = "MRISTAGE_ERK_NOFAST" THEN mriStep_StageERKNoFast(a0)
           ELSE IF ty = "MRISTAGE_DIRK_NOFAST" THEN mriStep_StageDIRKNoFast(a0)
           ELSE IF ty = "MRISTAGE_DIRK_FAST" THEN mriStep_StageDIRKFast(a0)
           ELSE /\ ark_mem' = a0
                /\ UNCHANGED <<step_mem, stepper, log>>
                /\ StageExit("ARK_SUCCESS")
    /\ UNCHANGED <<errmsg, mode, fvec, entry, dense, heap>>

(* Variant: a failure of the postprocessing function is passed over. *)
TakeStepProcess_PassFailure ==
    /\ pc = "process"
    /\ \E r \in RetSet :
          /\ (ark_mem.ProcessStage = NULL => r = 0)
          /\ IF ark_mem.ProcessStage = NULL
             THEN /\ pc' = "reset"
                  /\ UNCHANGED <<ark_mem, log, is, lastcall, retval>>
             ELSE /\ log' = log \o <<Returned(Event("ProcessStage", is, ark_mem.tcur,
                                                     ark_mem.ycur), r)>>
                  /\ IF FALSE
                     THEN /\ TakeStepReturn("ARK_POSTPROCESS_STAGE_FAIL", is)
                          /\ UNCHANGED ark_mem
                     ELSE /\ ark_mem' = [ark_mem EXCEPT
                                            !.ycur = psVal(ark_mem.tcur, ark_mem.ycur)]
                          /\ pc' = "reset"
                          /\ UNCHANGED <<is, lastcall, retval>>
    /\ UNCHANGED <<step_mem, stepper, errmsg, mode, fvec, entry, dense, heap>>

(* The user's stage postprocessing function, if one is set. *)
TakeStepProcess ==
    /\ pc = "process"
    /\ \E r \in RetSet :
          /\ (ark_mem.ProcessStage = NULL => r = 0)
          /\ IF ark_mem.ProcessStage = NULL
             THEN /\ pc' = "reset"
                  /\ UNCHANGED <<ark_mem, log, is, lastcall, retval>>
             ELSE /\ log' = log \o <<Returned(Event("ProcessStage", is, ark_mem.tcur,
                                                     ark_mem.ycur), r)>>
                  /\ IF r # 0
                     THEN /\ TakeStepReturn("ARK_POSTPROCESS_STAGE_FAIL", is)
                          /\ UNCHANGED ark_mem
                     ELSE /\ ark_mem' = [ark_mem EXCEPT
                                            !.ycur = psVal(ark_mem.tcur, ark_mem.ycur)]
                          /\ pc' = "reset"
                          /\ UNCHANGED <<is, lastcall, retval>>
    /\ UNCHANGED <<step_mem, stepper, errmsg, mode, fvec, entry, dense, heap>>

(***************************************************************************)
(* mriStepInnerStepper_Reset(stepper, tR, yR): the stepper's reset         *)
(* function is called if it has one; r is its return value.                *)
(***************************************************************************)
mriStepInnerStepper_Reset(st, r) ==
    IF st.reset # NULL
    THEN [stepper |-> [st EXCEPT !.last_flag = r], flag |-> r, called |-> TRUE]
    ELSE [stepper |-> st, flag |-> 0, called |-> FALSE]

(* Variant: the reset is made only when both conditions hold. *)
TakeStepReset_Both ==
    /\ pc = "reset"
    /\ IF step_mem.stagetypes[is] # "MRISTAGE_ERK_FAST" /\ ark_mem.ProcessStage # NULL
       THEN \E r \in RetSet :
               /\ (stepper.reset = NULL => r = 0)
               /\ LET res == mriStepInnerStepper_Reset(stepper, r)
                  IN  /\ stepper' = res.stepper
                      /\ log' = log \o <<Event("Reset", is, ark_mem.tcur, ark_mem.ycur)>>
                                    \o (IF res.called
                                        THEN <<Event("reset", is, ark_mem.tcur,
                                                     ark_mem.ycur)>>
                                        ELSE <<>>)
                      /\ IF res.flag # 0
                         THEN TakeStepReturn("ARK_INNERSTEP_FAIL", is)
                         ELSE /\ pc' = "rhs"
                              /\ UNCHANGED <<is, lastcall, retval>>
       ELSE /\ pc' = "rhs"
            /\ UNCHANGED <<stepper, log, is, lastcall, retval>>
    /\ UNCHANGED <<step_mem, ark_mem, errmsg, mode, fvec, entry, dense, heap>>

(* The conditional reset of the inner stepper to (tcur, ycur). *)
TakeStepReset ==
    /\ pc = "reset"
    /\ IF step_mem.stagetypes[is] # "MRISTAGE_ERK_FAST" \/ ark_mem.ProcessStage # NULL
       THEN \E r \in RetSet :
               /\ (stepper.reset = NULL => r = 0)
               /\ LET res == mriStepInnerStepper_Reset(stepper, r)
                  IN  /\ stepper' = res.stepper
                      /\ log' = log \o <<Event("Reset", is, ark_mem.tcur, ark_mem.ycur)>>
                                    \o (IF res.called
                                        THEN <<Event("reset", is, ark_mem.tcur,
                                                     ark_mem.ycur)>>
                                        ELSE <<>>)
                      /\ IF res.flag # 0
                         THEN TakeStepReturn("ARK_INNERSTEP_FAIL", is)
                         ELSE /\ pc' = "rhs"
                              /\ UNCHANGED <<is, lastcall, retval>>
       ELSE /\ pc' = "rhs"
            /\ UNCHANGED <<stepper, log, is, lastcall, retval>>
    /\ UNCHANGED <<step_mem, ark_mem, errmsg, mode, fvec, entry, dense, heap>>

(* Variant: the slow right-hand side is evaluated at the last stage too. *)
TakeStepRhs_EveryStage ==
    /\ pc = "rhs"
    /\ \E r \in RetSet :
          /\ step_mem' = [step_mem EXCEPT
                            !.nfs = @ + 1,
                            !.F[is] = IF r = 0
                                      THEN fsVal(ark_mem.tcur, ark_mem.ycur) ELSE @]
          /\ log' = log \o <<Returned(Event("fs", is, ark_mem.tcur, ark_mem.ycur), r)>>
          /\ IF r < 0 THEN TakeStepReturn("ARK_RHSFUNC_FAIL", is)
             ELSE IF r > 0 THEN TakeStepReturn("ARK_UNREC_RHSFUNC_ERR", is)
             ELSE TakeStepLoop(is + 1)
    /\ UNCHANGED <<ark_mem, stepper, errmsg, mode, fvec, entry, dense, heap>>

(* The slow right-hand side of the stage, except at the last stage. *)
TakeStepRhs ==
    /\ pc = "rhs"
    /\ IF is < step_mem.stages - 1
       THEN \E r \in RetSet :
               /\ step_mem' = [step_mem EXCEPT
                                 !.nfs = @ + 1,
                                 !.F[is] = IF r = 0
                                           THEN fsVal(ark_mem.tcur, ark_mem.ycur) ELSE @]
               /\ log' = log \o <<Returned(Event("fs", is, ark_mem.tcur, ark_mem.ycur), r)>>
               /\ IF r < 0 THEN TakeStepReturn("ARK_RHSFUNC_FAIL", is)
                  ELSE IF r > 0 THEN TakeStepReturn("ARK_UNREC_RHSFUNC_ERR", is)
                  ELSE TakeStepLoop(is + 1)
       ELSE /\ TakeStepLoop(is + 1)
            /\ UNCHANGED <<step_mem, log>>
    /\ UNCHANGED <<ark_mem, stepper, errmsg, mode, fvec, entry, dense, heap>>

(***************************************************************************)
(* MRIStepReset and MRIStepReInit, called between steps.                   *)
(*                                                                         *)
(* arkInit(ark_mem, t0, y0, init_type) is the host's: it restarts the      *)
(* integration at (t0, y0) and asks for the initial setup to be made       *)
(* again.  (nst is kept: here it bounds the steps of a run.)               *)
(***************************************************************************)
arkInit(a, t0, y0, init_type) ==
    [a EXCEPT !.tn = t0, !.tcur = t0, !.yn = y0, !.ycur = y0,
              !.initsetup = TRUE, !.firststage = TRUE]

(* The calls are made after the last step of a run, and a reset also      *)
(* after a reset.                                                          *)
BetweenSteps(call) ==
    \/ pc = "ready" /\ ark_mem.nst = MaxSteps /\ dense < MaxDense
    \/ pc = "wasreset" /\ call = "MRIStepReset" /\ Len(log) < MaxResets

(* A restart returns; dense counts the calls made after a step, and log    *)
(* keeps the calls made since the step.                                    *)
ResetCall(tR, yR, code) == [ev |-> "MRIStepReset", t |-> tR, y |-> yR, ret |-> code]

RestartReturn(call, code, next, args) ==
    /\ lastcall' = call
    /\ retval' = code
    /\ pc' = next
    /\ log' = IF pc = "ready" THEN <<args>> ELSE log \o <<args>>
    /\ dense' = IF pc = "ready" THEN dense + 1 ELSE dense
    /\ UNCHANGED <<is, errmsg, mode, fvec, entry>>

(* Variant: the restart zeroes the counters, as a reinitialisation does. *)
MRIStepReset_ZeroCounters ==
    /\ BetweenSteps("MRIStepReset")
    /\ \E tR \in {0}, yR \in 0..1, ok \in BOOLEAN :
          IF ok
          THEN /\ ark_mem' = arkInit(ark_mem, tR, yR, "RESET_INIT")
               /\ step_mem' = [step_mem EXCEPT !.nfs = 0]
               /\ RestartReturn("MRIStepReset", "ARK_SUCCESS", "wasreset",
                                ResetCall(tR, yR, "ARK_SUCCESS"))
          ELSE /\ RestartReturn("MRIStepReset", "ARK_ILL_INPUT", pc,
                                ResetCall(tR, yR, "ARK_ILL_INPUT"))
               /\ UNCHANGED <<ark_mem, step_mem>>
    /\ UNCHANGED <<stepper, heap>>

(* MRIStepReset(arkode_mem, tR, yR); ok is whether arkInit succeeds. *)
MRIStepReset ==
    /\ BetweenSteps("MRIStepReset")
    /\ \E tR \in {0}, yR \in 0..1, ok \in BOOLEAN :
          IF ok
          THEN /\ ark_mem' = arkInit(ark_mem, tR, yR, "RESET_INIT")
               /\ RestartReturn("MRIStepReset", "ARK_SUCCESS", "wasreset",
                                ResetCall(tR, yR, "ARK_SUCCESS"))
          ELSE /\ RestartReturn("MRIStepReset", "ARK_ILL_INPUT", pc,
                                ResetCall(tR, yR, "ARK_ILL_INPUT"))
               /\ UNCHANGED ark_mem
    /\ UNCHANGED <<step_mem, stepper, heap>>

(* MRIStepReInit(arkode_mem, fs, t0, y0); a null y0 is y0 = NULL here, and *)
(* ok is whether arkInit succeeds.                                         *)
MRIStepReInit ==
    /\ BetweenSteps("MRIStepReInit")
    /\ \E fs \in {NULL, "fs2"}, y0 \in {NULL, "y0"}, v \in {1}, ok \in BOOLEAN :
          LET args == [ev |-> "MRIStepReInit", fs |-> fs, y0 |-> y0, t |-> 0, y |-> v]
          IN  IF fs = NULL \/ y0 = NULL
              THEN /\ RestartReturn("MRIStepReInit", "ARK_ILL_INPUT", pc, args)
                   /\ UNCHANGED <<ark_mem, step_mem>>
              ELSE IF ~ok
              THEN /\ RestartReturn("MRIStepReInit", "ARK_MEM_FAIL", pc, args)
                   /\ UNCHANGED <<ark_mem, step_mem>>
              ELSE /\ ark_mem' = arkInit(ark_mem, 0, v, "FIRST_INIT")
                   /\ step_mem' = [step_mem EXCEPT !.fs = fs, !.nfs = 0]
                   /\ RestartReturn("MRIStepReInit", "ARK_SUCCESS", "wasreinit", args)
    /\ UNCHANGED <<stepper, heap>>

(***************************************************************************)
(* The integrator: the user's calls, the initialisation, and steps.        *)
(***************************************************************************)
Next ==
    \/ MRIStepSetCoupling
    \/ MRIStepSetNonlinearSolver
    \/ MRIStepSetFixedStep
    \/ MRIStepSetPostprocessStageFn
    \/ MRIStepSetPreInnerFn
    \/ MRIStepSetPostInnerFn
    \/ MRIStepSetStagePredictFn
    \/ mriStep_AttachLinsol
    \/ mriStep_Init("FIRST_INIT")
    \/ mriStep_Init("RESET_INIT")
    \/ MRIStepReset
    \/ MRIStepReInit
    \/ InitialFullRHS
    \/ DenseFullRHS
    \/ TakeStepEntry
    \/ TakeStepStage
    \/ TakeStepProcess
    \/ TakeStepReset
    \/ TakeStepRhs
    \/ CompleteFullRHS
    \/ HostAdvance

Spec == Init /\ [][Next]_vars

(***************************************************************************)
(* The life of the memory: MRIStepInnerStepper_Create and the functions    *)
(* that set the operations of a custom inner stepper, MRIStepCreate with   *)
(* its argument checks and failure paths, mriStep_Init, MRIStepFree and    *)
(* MRIStepInnerStepper_Free.  The records step_mem and stepper are         *)
(* meaningful while their blocks are in heap.                              *)
(***************************************************************************)
(* step_mem after malloc and memset(step_mem, 0, ...). *)
ZeroStepMem ==
    [CreateStepMem(NULL) EXCEPT !.fs = NULL, !.q = 0, !.NLS = NULL, !.ownNLS = FALSE,
                                !.stepper = NULL]

(* No inner stepper: the handle is null. *)
NoStepper == [NewStepper(NULL, NULL, NULL) EXCEPT !.mem = NULL, !.ops = NULL]

(* mriStepInnerStepper_FreeVecs: the forcing vectors and the workspace. *)
mriStepInnerStepper_FreeVecs(st, h) ==
    [stepper |-> [st EXCEPT !.forcing = NoVec, !.vecs = NULL, !.vals = NULL],
     heap |-> h \ ({Blk("forcing", -1), Blk("vecs", 0), Blk("vals", 0)}
                    \cup {Blk("forcing", k) : k \in DOMAIN st.forcing})]

(* MRIStepInnerStepper_Free: FreeVecs, the record is freed, the handle is nulled. *)
MRIStepInnerStepper_Free(st, h) ==
    IF st.mem = NULL THEN [stepper |-> st, heap |-> h]
    ELSE LET fv == mriStepInnerStepper_FreeVecs(st, h)
         IN  [stepper |-> [fv.stepper EXCEPT !.mem = NULL],
              heap |-> fv.heap \ {Blk("stepper", 0)}]

(***************************************************************************)
(* MRIStepFree(&ark_mem) on an outer memory whose stepper memory is sm     *)
(* (hasStepMem tells whether ark_mem->step_mem is set): the memory as the  *)
(* code leaves it and the heap.                                            *)
(***************************************************************************)
MRIStepFreeBlocks(sm) ==
    (IF sm.MRIC # NullTable
     THEN {Blk("MRIC", 0), Blk("stagetypes", 0), Blk("rkcoeffs", 0)} ELSE {})
    \cup (IF sm.NLS # NULL /\ sm.ownNLS THEN {Blk("NLS", 0)} ELSE {})
    \cup (IF sm.sdata # NoVec THEN {Blk("sdata", 0)} ELSE {})
    \cup (IF sm.zpred # NoVec THEN {Blk("zpred", 0)} ELSE {})
    \cup (IF sm.zcor # NoVec THEN {Blk("zcor", 0)} ELSE {})
    \cup (IF sm.F # NoVec
          THEN {Blk("F", -1)} \cup {Blk("F", j) : j \in 0..(sm.stages - 1)} ELSE {})
    \cup (IF sm.cvals # NULL THEN {Blk("cvals", 0)} ELSE {})
    \cup (IF sm.Xvecs # NULL THEN {Blk("Xvecs", 0)} ELSE {})

MRIStepFreeMem(sm) ==
    [sm EXCEPT !.MRIC = NullTable,
               !.stagetypes = IF sm.MRIC # NullTable THEN NoVec ELSE @,
               !.rkcoeffs = IF sm.MRIC # NullTable THEN NoVec ELSE @,
               !.ownNLS = IF sm.NLS # NULL /\ sm.ownNLS THEN FALSE ELSE @,
               !.NLS = NULL,
               !.lmem = IF sm.lfree # NULL THEN NULL ELSE @,
               !.sdata = NoVec, !.zpred = NoVec, !.zcor = NoVec,
               !.F = NoVec, !.cvals = NULL, !.Xvecs = NULL, !.stepper = NULL]

MRIStepFree(hasStepMem, sm, st, h) ==
    IF ~hasStepMem
    THEN [step_mem |-> sm, stepper |-> st, heap |-> h \ {Blk("ark_mem", 0)}]
    ELSE LET h1 == LinsolFree(sm, h) \ MRIStepFreeBlocks(sm)
             fr == IF sm.stepper # NULL /\ sm.id = "MRISTEP_ARKSTEP"
                   THEN MRIStepInnerStepper_Free(st, h1)
                   ELSE [stepper |-> st, heap |-> h1]
         IN  [step_mem |-> MRIStepFreeMem(sm), stepper |-> fr.stepper,
              heap |-> fr.heap \ {Blk("step_mem", 0), Blk("ark_mem", 0)}]

(* mriStepInnerStepper_HasRequiredOps *)
mriStepInnerStepper_HasRequiredOps(st) ==
    IF st.mem = NULL THEN "ARK_ILL_INPUT"
    ELSE IF st.ops = NULL THEN "ARK_ILL_INPUT"
    ELSE IF st.evolve # NULL /\ st.fullrhs # NULL THEN "ARK_SUCCESS"
    ELSE "ARK_ILL_INPUT"

(***************************************************************************)
(* MRIStepCreate(fs, t0, y0, inner_step_id, stepper).  handle is the       *)
(* stepper argument (for MRISTEP_CUSTOM the inner stepper st itself, for   *)
(* MRISTEP_ARKSTEP an ARKStep memory), nvectorOK the result of             *)
(* mriStep_CheckNVector, and fail the first of the calls made by           *)
(* MRIStepCreate that fails, "none" if none does.  The result is the       *)
(* value returned, the memory and the heap.                                *)
(***************************************************************************)
CreateFailPoints ==
    {"none", "arkCreate", "malloc", "MRIStepSetDefaults", "SUNNonlinSol_Newton",
     "MRIStepSetNonlinearSolver", "arkInit", "ARKStepCreateMRIStepInnerStepper"}

CreateResult(ret, sm, st, h) == [ret |-> ret, step_mem |-> sm, stepper |-> st, heap |-> h]

(* The memory when the call named fail has failed, as MRIStepFree finds it. *)
CreateFailure(fs, fail, st, h) ==
    LET hArk  == h \cup {Blk("ark_mem", 0)}
        hMem  == hArk \cup {Blk("step_mem", 0)}
        hNLS  == hMem \cup {Blk("NLS", 0)}
        smFs  == [ZeroStepMem EXCEPT !.fs = fs, !.q = 3]
    IN  IF fail = "malloc" THEN MRIStepFree(FALSE, ZeroStepMem, st, hArk)
        ELSE IF fail = "MRIStepSetDefaults" THEN MRIStepFree(TRUE, ZeroStepMem, st, hMem)
        ELSE IF fail = "SUNNonlinSol_Newton" THEN MRIStepFree(TRUE, smFs, st, hMem)
        ELSE IF fail = "MRIStepSetNonlinearSolver" THEN MRIStepFree(TRUE, smFs, st, hNLS)
        ELSE MRIStepFree(TRUE, [smFs EXCEPT !.NLS = "default", !.ownNLS = TRUE], st, hNLS)

MRIStepCreateCall(fs, y0, inner_step_id, handle, nvectorOK, fail, st, h) ==
    LET wrap  == inner_step_id = "MRISTEP_ARKSTEP"
        st1   == IF wrap THEN NewStepper("evolve", "fullrhs", "reset") ELSE st
        hSt   == h \cup {Blk("ark_mem", 0), Blk("step_mem", 0), Blk("NLS", 0)}
                   \cup (IF wrap THEN {Blk("stepper", 0), Blk("ops", 0)} ELSE {})
        smSt  == [ZeroStepMem EXCEPT !.fs = fs, !.q = 3, !.NLS = "default",
                                     !.ownNLS = TRUE, !.stepper = "stepper",
                                     !.id = inner_step_id]
    IN  IF fs = NULL \/ y0 = NULL
           \/ inner_step_id \notin {"MRISTEP_ARKSTEP", "MRISTEP_CUSTOM"}
           \/ handle = NULL \/ ~nvectorOK
        THEN CreateResult(NULL, ZeroStepMem, st, h)
        ELSE IF fail = "arkCreate" THEN CreateResult(NULL, ZeroStepMem, st, h)
        ELSE IF fail \in {"malloc", "MRIStepSetDefaults", "SUNNonlinSol_Newton",
                          "MRIStepSetNonlinearSolver", "arkInit"}
                \/ (wrap /\ fail = "ARKStepCreateMRIStepInnerStepper")
        THEN LET f == CreateFailure(fs, fail, st, h)
             IN  CreateResult(NULL, f.step_mem, f.stepper, f.heap)
        ELSE IF mriStepInnerStepper_HasRequiredOps(st1) # "ARK_SUCCESS"
        THEN LET f == MRIStepFree(TRUE, smSt, st1, hSt)
             IN  CreateResult(NULL, f.step_mem, f.stepper, f.heap)
        ELSE CreateResult("ark_mem", [CreateStepMem(inner_step_id) EXCEPT !.fs = fs], st1, hSt)

(* MRIStepInnerStepper_Create(&stepper); fail is the malloc that fails    *)
(* (1 the record, 2 the operations table), 0 if none does.                 *)
MRIStepInnerStepper_Create(fail, h) ==
    IF fail = 1
    THEN [flag |-> "ARK_MEM_FAIL", stepper |-> NoStepper, heap |-> h]
    ELSE IF fail = 2
    THEN [flag |-> "ARK_MEM_FAIL", stepper |-> [NoStepper EXCEPT !.mem = "stepper"],
          heap |-> h \cup {Blk("stepper", 0)}]
    ELSE [flag |-> "ARK_SUCCESS", stepper |-> NewStepper(NULL, NULL, NULL),
          heap |-> h \cup {Blk("stepper", 0), Blk("ops", 0)}]

InitLife ==
    /\ step_mem = ZeroStepMem
    /\ ark_mem = CreateArkMem
    /\ stepper = NoStepper
    /\ pc = "start"
    /\ is = 0
    /\ lastcall = "none"
    /\ retval = "ARK_SUCCESS"
    /\ errmsg = ""
    /\ mode = 0
    /\ fvec = 0
    /\ log = <<>>
    /\ entry = Entry0
    /\ dense = 0
    /\ heap = {}

(* A call returns: what the caller sees. *)
LifeReturn(call, code, next) ==
    /\ lastcall' = call
    /\ retval' = code
    /\ pc' = next
    /\ UNCHANGED <<is, errmsg, mode, fvec, entry, dense>>

(* The user creates a custom inner stepper. *)
InnerStepperCreateCall ==
    /\ pc = "start"
    /\ \E fail \in 0..2 :
          LET r == MRIStepInnerStepper_Create(fail, heap)
          IN  /\ stepper' = r.stepper
              /\ heap' = r.heap
              /\ log' = <<[ev |-> "MRIStepInnerStepper_Create", heap |-> heap]>>
              /\ LifeReturn("MRIStepInnerStepper_Create", r.flag, "user")
    /\ UNCHANGED <<step_mem, ark_mem>>

(* MRIStepInnerStepper_SetEvolveFn, _SetFullRhsFn, _SetResetFn *)
SetOp(call, st1) ==
    /\ pc = "user"
    /\ IF stepper.mem = NULL \/ stepper.ops = NULL
       THEN /\ LifeReturn(call, "ARK_ILL_INPUT", "user")
            /\ UNCHANGED stepper
       ELSE /\ LifeReturn(call, "ARK_SUCCESS", "user")
            /\ stepper' = st1
    /\ UNCHANGED <<step_mem, ark_mem, log, heap>>

MRIStepInnerStepper_SetEvolveFn ==
    /\ stepper.evolve = NULL
    /\ SetOp("MRIStepInnerStepper_SetEvolveFn", [stepper EXCEPT !.evolve = "evolve"])

MRIStepInnerStepper_SetFullRhsFn ==
    /\ stepper.fullrhs = NULL
    /\ SetOp("MRIStepInnerStepper_SetFullRhsFn", [stepper EXCEPT !.fullrhs = "fullrhs"])

MRIStepInnerStepper_SetResetFn ==
    /\ stepper.reset = NULL
    /\ SetOp("MRIStepInnerStepper_SetResetFn", [stepper EXCEPT !.reset = "reset"])

(* The user calls MRIStepCreate: with an ARKStep memory (or null) when no  *)
(* custom inner stepper was made, or with the custom inner stepper.        *)
CreateCall ==
    /\ pc \in {"start", "user"}
    /\ \E fs \in {NULL, "fs"}, y0 \in {NULL, "y0"}, nvectorOK \in BOOLEAN,
          id \in {"MRISTEP_ARKSTEP", "MRISTEP_CUSTOM", "MRISTEP_OTHER"},
          hdl \in {NULL, "arkstep_mem"}, fail \in CreateFailPoints :
          /\ (id = "MRISTEP_ARKSTEP" => pc = "start")
          /\ (id = "MRISTEP_CUSTOM" => hdl = NULL)
          /\ LET handle == IF id = "MRISTEP_CUSTOM" THEN stepper.mem ELSE hdl
                 r == MRIStepCreateCall(fs, y0, id, handle, nvectorOK, fail, stepper, heap)
             IN  /\ step_mem' = r.step_mem
                 /\ stepper' = r.stepper
                 /\ heap' = r.heap
                 /\ log' = <<[ev |-> "MRIStepCreate", fs |-> fs, y0 |-> y0, id |-> id,
                              handle |-> handle, nvectorOK |-> nvectorOK, fail |-> fail,
                              heap |-> heap]>>
                 /\ LifeReturn("MRIStepCreate", r.ret,
                               IF r.ret = NULL THEN "nocreate" ELSE "created")
    /\ UNCHANGED ark_mem

(* The user calls MRIStepFree on the memory MRIStepCreate returned. *)
FreeCall ==
    /\ pc \in {"created", "setup", "failed"}
    /\ LET r == MRIStepFree(TRUE, step_mem, stepper, heap)
       IN  /\ step_mem' = r.step_mem
           /\ stepper' = r.stepper
           /\ heap' = r.heap
    /\ log' = <<[ev |-> "MRIStepFree", heap |-> heap, id |-> step_mem.id]>>
    /\ LifeReturn("MRIStepFree", "ARK_SUCCESS", "freed")
    /\ UNCHANGED ark_mem

(* The user calls MRIStepInnerStepper_Free on the custom inner stepper. *)
InnerStepperFreeCall ==
    /\ pc \in {"user", "nocreate", "freed"}
    /\ LET r == MRIStepInnerStepper_Free(stepper, heap)
       IN  /\ stepper' = r.stepper
           /\ heap' = r.heap
    /\ log' = <<[ev |-> "MRIStepInnerStepper_Free", heap |-> heap]>>
    /\ LifeReturn("MRIStepInnerStepper_Free", "ARK_SUCCESS", "done")
    /\ UNCHANGED <<step_mem, ark_mem>>

(***************************************************************************)
(* MRIStepInnerStepper_AddForcing and MRIStepResize.                       *)
(***************************************************************************)

(* The vectors of the array name of n vectors, in the order of the array. *)
VecBlocks(name, n) == [j \in 1..n |-> Blk(name, j - 1)]

(* arkResizeVecArray(.., count, tmpl, &array) and arkResizeVec(.., &v) are *)
(* the host's: the resize (the user's function fn, or destroy and clone    *)
(* when fn is null) is applied to each vector given, in order.             *)
arkResizeVecArray(vs, fn) ==
    [j \in 1..Len(vs) |-> [ev |-> "arkResizeVec", vec |-> vs[j], resize |-> fn]]

(* MRIStepInnerStepper_AddForcing(stepper, t, f): vecs[0] is the caller's  *)
(* f and vecs[i+1] is forcing[i].                                          *)
MRIStepInnerStepper_AddForcing(st) ==
    IF st.mem = NULL
    THEN [flag |-> "ARK_ILL_INPUT", stepper |-> st]
    ELSE [flag |-> "ARK_SUCCESS",
          stepper |-> [st EXCEPT !.aliases = <<Blk("f", 0)>>
                                             \o VecBlocks("forcing", st.nforcing)]]

(* mriStepInnerStepper_Resize: the forcing array, then the vecs array. *)
mriStepInnerStepper_Resize(st, fn) ==
    arkResizeVecArray(VecBlocks("forcing", st.nforcing), fn)
    \o arkResizeVecArray(st.aliases, fn)

(* The vectors MRIStepResize resizes itself: F[i], sdata, zpred, zcor. *)
ResizeVecs(sm) ==
    VecBlocks("F", sm.stages)
    \o (IF sm.sdata # NoVec THEN <<Blk("sdata", 0)>> ELSE <<>>)
    \o (IF sm.zpred # NoVec THEN <<Blk("zpred", 0)>> ELSE <<>>)
    \o (IF sm.zcor # NoVec THEN <<Blk("zcor", 0)>> ELSE <<>>)

(* Where MRIStepResize can fail. *)
ResizeFailPoints ==
    {"none", "arkResize", "arkResizeVec", "SUNNonlinSol_Newton",
     "MRIStepSetNonlinearSolver", "mriStepInnerStepper_Resize"}

(* The stepper memory after MRIStepResize: an owned nonlinear solver is    *)
(* destroyed and a new default one attached, and nsetups is zeroed.        *)
ResizeStepMem(sm, fail) ==
    IF fail \in {"arkResize", "arkResizeVec"} THEN sm
    ELSE IF sm.NLS # NULL /\ sm.ownNLS
    THEN IF fail \in {"SUNNonlinSol_Newton", "MRIStepSetNonlinearSolver"}
         THEN [sm EXCEPT !.NLS = NULL, !.NLSsetup = NULL, !.ownNLS = FALSE]
         ELSE [sm EXCEPT !.NLS = "default", !.NLSsetup = NULL, !.ownNLS = TRUE,
                         !.nsetups = IF fail = "none" THEN 0 ELSE @]
    ELSE [sm EXCEPT !.nsetups = IF fail = "none" /\ sm.NLS # NULL THEN 0 ELSE @]

(* The resizes made, in order, up to the failure. *)
ResizeLog(sm, st, fn, fail) ==
    IF fail \in {"arkResize", "arkResizeVec"} THEN <<>>
    ELSE IF fail = "none"
    THEN arkResizeVecArray(ResizeVecs(sm), fn) \o mriStepInnerStepper_Resize(st, fn)
    ELSE arkResizeVecArray(ResizeVecs(sm), fn)

(* MRIStepResize(arkode_mem, y0, t0, resize, resize_data).  With a null    *)
(* resize the vectors are destroyed and cloned, and the entries of vecs    *)
(* then point to destroyed vectors or to the caller's: what happens when   *)
(* they are destroyed is undefined, and the call may not return.           *)
MRIStepResize ==
    /\ pc = "setup"
    /\ dense < MaxDense
    /\ \E fn \in {NULL, "resize"}, fail \in ResizeFailPoints, returns \in BOOLEAN :
          /\ (fail \in {"SUNNonlinSol_Newton", "MRIStepSetNonlinearSolver"}
                => step_mem.NLS # NULL /\ step_mem.ownNLS)
          /\ (~returns => fn = NULL /\ fail = "none" /\ stepper.aliases # <<>>)
          /\ step_mem' = ResizeStepMem(step_mem, fail)
          /\ log' = ResizeLog(step_mem, stepper, fn, fail)
          /\ heap' = IF fail = "SUNNonlinSol_Newton" THEN heap \ {Blk("NLS", 0)} ELSE heap
          /\ retval' = IF ~returns THEN "UNDEFINED"
                       ELSE IF fail = "none" THEN "ARK_SUCCESS" ELSE "ARK_MEM_FAIL"
          /\ pc' = IF ~returns THEN "aborted"
                   ELSE IF fail = "none" THEN "setup" ELSE "failed"
    /\ lastcall' = "MRIStepResize"
    /\ dense' = dense + 1
    /\ UNCHANGED <<ark_mem, stepper, is, errmsg, mode, fvec, entry>>

(* The inner stepper's right-hand side calls MRIStepInnerStepper_AddForcing. *)
AddForcingCall ==
    /\ pc \in {"setup", "nocreate"}
    /\ stepper.mem = NULL \/ stepper.vecs # NULL
    /\ stepper.aliases = <<>>
    /\ LET r == MRIStepInnerStepper_AddForcing(stepper)
       IN  /\ stepper' = r.stepper
           /\ LifeReturn("MRIStepInnerStepper_AddForcing", r.flag, pc)
    /\ log' = <<>>
    /\ UNCHANGED <<step_mem, ark_mem, heap>>

NextLife ==
    \/ InnerStepperCreateCall
    \/ MRIStepInnerStepper_SetEvolveFn
    \/ MRIStepInnerStepper_SetFullRhsFn
    \/ MRIStepInnerStepper_SetResetFn
    \/ CreateCall
    \/ MRIStepSetCoupling
    \/ MRIStepSetFixedStep
    \/ MRIStepSetNonlinearSolver
    \/ mriStep_AttachLinsol
    \/ ReplaceLinsol
    \/ mriStep_Init("FIRST_INIT")
    \/ AddForcingCall
    \/ MRIStepResize
    \/ FreeCall
    \/ InnerStepperFreeCall

SpecLife == InitLife /\ [][NextLife]_vars

(***************************************************************************)
(* mriStep_CheckCoupling on its own: the stepper holds a table and orders  *)
(* from CheckTables and OrderSet, and the check is applied to them.        *)
(***************************************************************************)
InitCheck ==
    /\ \E o \in OrderSet : \E T \in CheckTables(o[1], o[2]) :
          /\ step_mem = [MRIC |-> T, stages |-> T.stages, q |-> o[1], p |-> o[2]]
          /\ ark_mem = [fixedstep |-> o[3]]
    /\ stepper = NULL
    /\ pc = "check"
    /\ is = 0
    /\ lastcall = "MRIStepSetCoupling"
    /\ retval = "ARK_SUCCESS"
    /\ errmsg = ""
    /\ mode = 0
    /\ fvec = 0
    /\ log = <<>>
    /\ entry = Entry0
    /\ dense = 0
    /\ heap = {}

CheckCouplingCall ==
    /\ pc = "check"
    /\ LET chk == mriStep_CheckCoupling(step_mem.stages, step_mem.q, step_mem.p,
                                        step_mem.MRIC, ark_mem.fixedstep)
       IN  /\ retval' = chk.flag
           /\ errmsg' = chk.msg
    /\ lastcall' = "mriStep_CheckCoupling"
    /\ pc' = "checked"
    /\ UNCHANGED <<step_mem, ark_mem, stepper, is, mode, fvec, log, entry, dense, heap>>

NextCheck == CheckCouplingCall

SpecCheck == InitCheck /\ [][NextCheck]_vars

(***************************************************************************)
(* mriStep_Predict on its own: the stepper is initialised with an implicit *)
(* table, a predictor method is chosen, and the prediction of an implicit  *)
(* stage is made, in the first step (initsetup) or a later one.            *)
(***************************************************************************)
PredictTables ==
    {T \in DriverTables :
        /\ mriStep_CheckCoupling(T.stages, T.q, T.p, T, TRUE).flag = "ARK_SUCCESS"
        /\ \E i \in 1..(T.stages - 1) : mriStep_StageType(T, i) = "MRISTAGE_DIRK_NOFAST"}

InitPredict ==
    /\ \E T \in PredictTables, pred \in 0..4, f0 \in 0..(VecMod - 1), z \in 0..(VecMod - 1) :
       \E i \in {j \in 1..(T.stages - 1) : mriStep_StageType(T, j) = "MRISTAGE_DIRK_NOFAST"} :
          step_mem = [MRIC |-> T, stages |-> T.stages, predictor |-> pred, istage |-> i,
                      F |-> [j \in 0..(T.stages - 1) |-> (j + f0) % VecMod],
                      zpred |-> <<z>>]
    /\ \E interp \in {NULL, "interp"}, first \in BOOLEAN, y \in 0..(VecMod - 1) :
          ark_mem = [interp |-> interp, initsetup |-> first, yn |-> y, h |-> 1]
    /\ stepper = NULL
    /\ pc = "predict"
    /\ is = 0
    /\ lastcall = "mriStep_Init"
    /\ retval = "ARK_SUCCESS"
    /\ errmsg = ""
    /\ mode = 0
    /\ fvec = 0
    /\ log = <<>>
    /\ entry = Entry0
    /\ dense = 0
    /\ heap = {}

(* mriStep_Predict(ark_mem, istage, zpred), as mriStep_StageDIRKNoFast calls it. *)
PredictCall ==
    /\ pc = "predict"
    /\ \E pr \in mriStep_Predict(ark_mem, step_mem, step_mem.istage, step_mem.zpred[1]) :
          /\ step_mem' = [step_mem EXCEPT !.zpred = <<pr.yguess>>]
          /\ retval' = pr.flag
          /\ log' = IF pr.pret = "NONE" THEN <<>>
                    ELSE <<[ev |-> "arkPredict", is |-> step_mem.istage, t |-> 0,
                            y |-> pr.yguess, ret |-> pr.pret]>>
    /\ lastcall' = "mriStep_Predict"
    /\ pc' = "predicted"
    /\ UNCHANGED <<ark_mem, stepper, is, errmsg, mode, fvec, entry, dense, heap>>

NextPredict == PredictCall

SpecPredict == InitPredict /\ [][NextPredict]_vars

(***************************************************************************)
(* mriStep_ComputeInnerForcing and mriStep_RKCoeffs on their own: a table  *)
(* that passes mriStep_CheckCoupling, a stage i after a positive time      *)
(* increment, any slow right-hand sides F[0..stages-1] and a step h.       *)
(***************************************************************************)
ForcingTables ==
    {T \in CheckTables(3, 1) :
        /\ mriStep_CheckCoupling(T.stages, T.q, T.p, T, TRUE).flag = "ARK_SUCCESS"
        /\ \E i \in 1..(T.stages - 1) : T.c[i] - T.c[i - 1] > 0}

InitForcing ==
    /\ \E T \in ForcingTables :
       \E i \in {j \in 1..(T.stages - 1) : T.c[j] - T.c[j - 1] > 0},
          Fs \in [0..(T.stages - 1) -> 0..(VecMod - 1)] :
          /\ step_mem = [MRIC |-> T, stages |-> T.stages, F |-> Fs, rkcoeffs |-> NoVec]
          /\ stepper = [forcing |-> [k \in 0..(T.nmat - 1) |-> ZeroForcing],
                        nforcing |-> T.nmat]
          /\ is = i
    /\ \E hh \in 1..2 : ark_mem = [h |-> hh]
    /\ pc = "forcing"
    /\ lastcall = "mriStep_Init"
    /\ retval = "ARK_SUCCESS"
    /\ errmsg = ""
    /\ mode = 0
    /\ fvec = 0
    /\ log = <<>>
    /\ entry = Entry0
    /\ dense = 0
    /\ heap = {}

(* mriStep_ComputeInnerForcing(step_mem, is, cdiff), as the fast stage     *)
(* calls it, and mriStep_RKCoeffs(MRIC, is, rkcoeffs).                     *)
ForcingCall ==
    /\ pc = "forcing"
    /\ LET cdiff == step_mem.MRIC.c[is] - step_mem.MRIC.c[is - 1]
           rk == mriStep_RKCoeffs(step_mem.MRIC, is)
       IN  /\ stepper' = [stepper EXCEPT
                            !.forcing = mriStep_ComputeInnerForcing(step_mem, stepper, is, cdiff)]
           /\ step_mem' = [step_mem EXCEPT !.rkcoeffs = rk.Arow]
           /\ retval' = rk.flag
    /\ lastcall' = "mriStep_ComputeInnerForcing"
    /\ pc' = "forced"
    /\ UNCHANGED <<ark_mem, is, errmsg, mode, fvec, log, entry, dense, heap>>

NextForcing == ForcingCall

SpecForcing == InitForcing /\ [][NextForcing]_vars

(***************************************************************************)
(* mriStep_StageType on its own: a table from CheckTables and a stage      *)
(* index, in the table or not.                                             *)
(***************************************************************************)
InitStageType ==
    /\ \E T \in CheckTables(3, 1) :
          step_mem = [MRIC |-> T, stages |-> T.stages]
    /\ is \in -1..(MaxStages + 1)
    /\ ark_mem = [fixedstep |-> TRUE]
    /\ stepper = NULL
    /\ pc = "stagetype"
    /\ lastcall = "MRIStepSetCoupling"
    /\ retval = "ARK_SUCCESS"
    /\ errmsg = ""
    /\ mode = 0
    /\ fvec = 0
    /\ log = <<>>
    /\ entry = Entry0
    /\ dense = 0
    /\ heap = {}

(* mriStep_StageType(MRIC, is) *)
StageTypeCall ==
    /\ pc = "stagetype"
    /\ retval' = mriStep_StageType(step_mem.MRIC, is)
    /\ lastcall' = "mriStep_StageType"
    /\ pc' = "typed"
    /\ UNCHANGED <<step_mem, ark_mem, stepper, is, errmsg, mode, fvec, log, entry, dense, heap>>

NextStageType == StageTypeCall

SpecStageType == InitStageType /\ [][NextStageType]_vars

(***************************************************************************)
(* The rules of the coupling table, stated on the table.                   *)
(***************************************************************************)
RECURSIVE SumOver(_)
SumOver(f) ==
    IF DOMAIN f = {} THEN 0
    ELSE LET x == CHOOSE x \in DOMAIN f : TRUE
         IN  f[x] + SumOver([y \in DOMAIN f \ {x} |-> f[y]])

UpperEntries(T, n) ==
    {e \in (0..(T.nmat - 1)) \X (0..(n - 1)) \X (0..(n - 1)) : e[3] > e[2]}

UpperMass(T, n) == SumOver([e \in UpperEntries(T, n) |-> SUNRabs(T.G[e[1]][e[2]][e[3]])])

DiagMass(T, i) == SumOver([k \in 0..(T.nmat - 1) |-> SUNRabs(T.G[k][i][i])])

FirstRowMass(T, n) ==
    SumOver([e \in (0..(T.nmat - 1)) \X (0..(n - 1)) |-> SUNRabs(T.G[e[1]][0][e[2]])])

RuleMsg ==
    <<"stages < 1!", "method order < 1", "embedding order < 1",
      "Coupling can be up to DIRK (at most)!",
      "solve-coupled DIRK stages not currently supported",
      "Stage times must be sorted.", "First stage must equal old solution.",
      "Final stage time must be equal 1.">>

(* Rule n (1..8, in the order of RuleMsg) is broken. *)
RuleBroken(n, stages, q, p, T, fixedstep) ==
    IF n = 1 THEN stages < 1
    ELSE IF n = 2 THEN q < 1
    ELSE IF n = 3 THEN p < 1 /\ ~fixedstep
    ELSE IF stages < 1 THEN FALSE
    ELSE IF n = 4 THEN UpperMass(T, stages) > tol
    ELSE IF n = 5 THEN \E i \in 1..(stages - 1) :
                          DiagMass(T, i) > tol /\ T.c[i] - T.c[i - 1] > tol
    ELSE IF n = 6 THEN \E i \in 1..(stages - 1) : T.c[i] < T.c[i - 1] - tol
    ELSE IF n = 7 THEN SUNRabs(T.c[0]) + FirstRowMass(T, stages) > tol
    ELSE SUNRabs(ONE - T.c[stages - 1]) > tol

BrokenRules(stages, q, p, T, fixedstep) ==
    {n \in 1..8 : RuleBroken(n, stages, q, p, T, fixedstep)}

(* The first broken rule, 0 when the table is valid. *)
FirstBroken(stages, q, p, T, fixedstep) ==
    LET B == BrokenRules(stages, q, p, T, fixedstep)
    IN  IF B = {} THEN 0 ELSE CHOOSE n \in B : \A m \in B : n <= m

StepFirstBroken ==
    FirstBroken(step_mem.stages, step_mem.q, step_mem.p, step_mem.MRIC, ark_mem.fixedstep)

(***************************************************************************)
(* Properties.                                                             *)
(***************************************************************************)
StageKinds == {"MRISTAGE_ERK_FAST", "MRISTAGE_ERK_NOFAST", "MRISTAGE_DIRK_NOFAST"}

(* mriStep_Init has returned ARK_SUCCESS. *)
InitOK ==
    \/ pc \in {"setup", "ready", "stage", "process", "reset", "rhs", "complete", "advance"}
    \/ pc = "failed" /\ lastcall # "mriStep_Init"

(* A call of mriStep_TakeStep is in progress or was the last call. *)
InTakeStep ==
    \/ pc \in {"stage", "process", "reset", "rhs"}
    \/ pc \in {"complete", "failed"} /\ lastcall = "mriStep_TakeStep"

TakeStepDone ==
    pc = "complete" /\ lastcall = "mriStep_TakeStep" /\ retval = "ARK_SUCCESS"

EvIdx(ev, i) == {n \in DOMAIN log : log[n].ev = ev /\ log[n].is = i}

Count(ev, i) == Cardinality(EvIdx(ev, i))

NlsFs == {n \in DOMAIN log : log[n].ev = "nls_fs"}

(* C1 (as amended): a successful mriStep_TakeStep in which the nonlinear   *)
(* solver evaluates no right-hand side leaves nfs exactly stages-2 larger  *)
(* than at entry: one evaluation per stage 1..stages-2, none at the last.  *)
C1_NfsGrowsByStagesMinus2 ==
    TakeStepDone /\ NlsFs = {} => step_mem.nfs = entry.nfs + step_mem.stages - 2

(* C1 as stated: nfs grows by exactly stages-1. *)
C1_NfsGrowsByStagesMinus1 ==
    TakeStepDone /\ NlsFs = {} => step_mem.nfs = entry.nfs + step_mem.stages - 1

C1_Witness ==
    /\ TakeStepDone
    /\ NlsFs = {}
    /\ step_mem.stages = 3
    /\ step_mem.nfs = entry.nfs + 1
    /\ Count("fs", 1) = 1
    /\ Count("fs", 2) = 0

(* Stage i of the step in progress has completed up to its reset. *)
StageComplete(i) ==
    /\ InTakeStep
    /\ i \in 1..(step_mem.stages - 1)
    /\ i < is \/ (i = is /\ pc = "rhs")

ResetNeeded(i) ==
    step_mem.stagetypes[i] # "MRISTAGE_ERK_FAST" \/ ark_mem.ProcessStage # NULL

StageT(i) == ark_mem.tn + step_mem.MRIC.c[i] * ark_mem.h

(* The solution of stage i once the stage is complete: what fs is given at *)
(* the stage, and ycur for the stage in progress and for the last stage.   *)
StageY(i) ==
    IF i = is \/ i = step_mem.stages - 1 THEN ark_mem.ycur
    ELSE log[CHOOSE n \in EvIdx("fs", i) : TRUE].y

ResetArgs(ev, i) ==
    \A n \in EvIdx(ev, i) :
       /\ log[n].t = StageT(i)
       /\ log[n].y = StageY(i)
       /\ \A m \in DOMAIN log : log[m].ev = "evolve" =>
             IF log[m].is > i THEN n < m ELSE m < n

(* C2 (as amended): for every completed stage, mriStepInnerStepper_Reset   *)
(* is called exactly once with (tcur, ycur) of the stage when the stage is *)
(* not ERK_FAST or ProcessStage is set, and not at all otherwise; the      *)
(* stepper's own reset function is invoked by that call only if the        *)
(* stepper has one; every such call precedes the evolve of later stages.   *)
C2_ResetOncePerStage ==
    \A i \in 1..(step_mem.stages - 1) :
       StageComplete(i) =>
          /\ Count("Reset", i) = IF ResetNeeded(i) THEN 1 ELSE 0
          /\ Count("reset", i) = IF ResetNeeded(i) /\ stepper.reset # NULL THEN 1 ELSE 0
          /\ ResetArgs("Reset", i)
          /\ ResetArgs("reset", i)

(* C2 as stated: the stepper's reset is invoked exactly once whenever the  *)
(* stage is not ERK_FAST or ProcessStage is set.                           *)
C2_ResetFnOncePerStage ==
    \A i \in 1..(step_mem.stages - 1) :
       StageComplete(i) =>
          /\ Count("reset", i) = IF ResetNeeded(i) THEN 1 ELSE 0
          /\ ResetArgs("reset", i)

C2_Witness ==
    /\ TakeStepDone
    /\ step_mem.stages = 3
    /\ step_mem.stagetypes[1] = "MRISTAGE_ERK_NOFAST"
    /\ step_mem.stagetypes[2] = "MRISTAGE_ERK_FAST"
    /\ ark_mem.ProcessStage = NULL
    /\ stepper.reset # NULL
    /\ Count("reset", 1) = 1
    /\ Count("reset", 2) = 0
    /\ Count("evolve", 2) = 1

(* The table mriStep_Init has checked is not valid. *)
InitTableBroken ==
    /\ lastcall = "mriStep_Init"
    /\ ark_mem.fixedstep
    /\ step_mem.MRIC # NullTable
    /\ StepFirstBroken # 0

(* C3 (as amended): when the coupling table fails validation,              *)
(* mriStep_Init (FIRST_INIT) returns ARK_ILL_INPUT; ARK_INVALID_TABLE is   *)
(* the return value of mriStep_CheckCoupling only, whose message is the    *)
(* one of the first broken rule.                                           *)
C3_InvalidTableIsIllInput ==
    InitTableBroken =>
       /\ retval = "ARK_ILL_INPUT"
       /\ pc = "failed"
       /\ errmsg = RuleMsg[StepFirstBroken]

(* C3 as stated: mriStep_Init returns ARK_INVALID_TABLE. *)
C3_InvalidTableIsInvalidTable ==
    InitTableBroken => retval = "ARK_INVALID_TABLE"

C3_Witness ==
    /\ InitTableBroken
    /\ step_mem.MRIC.c[step_mem.stages - 1] = ONE - 2 * tol
    /\ StepFirstBroken = 8
    /\ retval = "ARK_ILL_INPUT"

(* C4: mriStep_CheckCoupling returns ARK_INVALID_TABLE with the message of *)
(* the first broken rule in the order stages, q, p (when not fixedstep),   *)
(* lower-triangular, no DIRK_FAST, sorted, first stage, last abscissa, and *)
(* ARK_SUCCESS when no rule is broken.                                     *)
C4_FirstBrokenRuleReported ==
    pc = "checked" =>
       IF StepFirstBroken = 0
       THEN retval = "ARK_SUCCESS" /\ errmsg = ""
       ELSE retval = "ARK_INVALID_TABLE" /\ errmsg = RuleMsg[StepFirstBroken]

C4_Witness ==
    /\ pc = "checked"
    /\ step_mem.stages = 3
    /\ step_mem.MRIC.G[0][1][2] = 2 * tol
    /\ Cardinality(BrokenRules(step_mem.stages, step_mem.q, step_mem.p, step_mem.MRIC,
                               ark_mem.fixedstep)) >= 3
    /\ StepFirstBroken = 4
    /\ errmsg = "Coupling can be up to DIRK (at most)!"

(* The lower-triangular rule is reached: the rules before it hold. *)
LowerRuleReached ==
    /\ pc = "checked"
    /\ step_mem.stages >= 1
    /\ step_mem.q >= 1
    /\ step_mem.p >= 1 \/ ark_mem.fixedstep

LowerRulePassed == errmsg # "Coupling can be up to DIRK (at most)!"

(* C5 (as amended): the lower-triangular rule passes exactly when the sum  *)
(* of |G[k][i][j]| over all k, i and j > i is at most tol.                 *)
C5_LowerRuleOnSum ==
    LowerRuleReached =>
       (LowerRulePassed <=> UpperMass(step_mem.MRIC, step_mem.stages) <= tol)

(* C5 as stated: the rule passes exactly when every strictly-upper entry   *)
(* is at most tol in magnitude.                                            *)
C5_LowerRuleOnEachEntry ==
    LowerRuleReached =>
       (LowerRulePassed <=>
          \A e \in UpperEntries(step_mem.MRIC, step_mem.stages) :
             SUNRabs(step_mem.MRIC.G[e[1]][e[2]][e[3]]) <= tol)

C5_Witness ==
    /\ LowerRuleReached
    /\ ~LowerRulePassed
    /\ \A e \in UpperEntries(step_mem.MRIC, step_mem.stages) :
          SUNRabs(step_mem.MRIC.G[e[1]][e[2]][e[3]]) <= tol
    /\ UpperMass(step_mem.MRIC, step_mem.stages) = 2 * tol

(* C6 (as amended): after a successful mriStep_Init every stagetypes[i]    *)
(* for i in 1..stages-1 is ERK_FAST, ERK_NOFAST or DIRK_NOFAST, while      *)
(* stagetypes[0] holds ARK_INVALID_TABLE, which mriStep_StageType returns  *)
(* for stage 0; mriStep_TakeStep dispatches on stages 1..stages-1 only, so *)
(* never to the DIRK_FAST routine.                                         *)
C6_StageTypesFromStage1 ==
    InitOK =>
       /\ \A i \in 1..(step_mem.stages - 1) : step_mem.stagetypes[i] \in StageKinds
       /\ step_mem.stagetypes[0] = "ARK_INVALID_TABLE"
       /\ pc = "stage" => is \in 1..(step_mem.stages - 1)
                          /\ step_mem.stagetypes[is] \in StageKinds

(* C6 as stated: every stagetypes[i] for i in 0..stages-1 is one of the    *)
(* three stage types.                                                      *)
C6_StageTypesFromStage0 ==
    InitOK =>
       \A i \in 0..(step_mem.stages - 1) : step_mem.stagetypes[i] \in StageKinds

C6_Witness ==
    /\ pc = "stage"
    /\ is = 2
    /\ step_mem.stagetypes[is] = "MRISTAGE_DIRK_NOFAST"
    /\ step_mem.stagetypes[1] = "MRISTAGE_ERK_FAST"
    /\ step_mem.stagetypes[0] = "ARK_INVALID_TABLE"

ScratchNull ==
    step_mem.sdata = NoVec /\ step_mem.zpred = NoVec /\ step_mem.zcor = NoVec

ScratchAllocated ==
    step_mem.sdata # NoVec /\ step_mem.zpred # NoVec /\ step_mem.zcor # NoVec

(* A successful mriStep_Init on a method that is not implicit. *)
ExplicitInitStep ==
    /\ pc = "created"
    /\ lastcall' = "mriStep_Init"
    /\ retval' = "ARK_SUCCESS"
    /\ ~step_mem'.implicit

(* C7 (as amended): after a successful mriStep_Init, if implicit is true   *)
(* sdata, zpred and zcor are allocated; if it is false they are null, the  *)
(* default nonlinear solver made by MRIStepCreate has been freed and       *)
(* detached, and a nonlinear solver supplied by the user (ownNLS false)    *)
(* stays attached.                                                         *)
C7_OwnedSolverDetached ==
    /\ [](InitOK => IF step_mem.implicit THEN ScratchAllocated
                    ELSE /\ ScratchNull
                         /\ step_mem.NLS \in {NULL, "user"}
                         /\ ~step_mem.ownNLS)
    /\ [][ExplicitInitStep =>
             step_mem'.NLS = IF step_mem.NLS = "user" THEN "user" ELSE NULL]_vars

(* C7 as stated: if implicit is false no nonlinear solver is attached. *)
C7_NoSolverWhenExplicit ==
    InitOK => IF step_mem.implicit THEN ScratchAllocated
              ELSE ScratchNull /\ step_mem.NLS = NULL

C7_Witness ==
    /\ InitOK
    /\ ~step_mem.implicit
    /\ ScratchNull
    /\ step_mem.NLS = "user"
    /\ ~step_mem.ownNLS

(* mriStep_Init (FIRST_INIT) is called without fixedstep. *)
AdaptiveInitStep ==
    /\ pc = "created"
    /\ lastcall' = "mriStep_Init"
    /\ ~ark_mem.fixedstep

(* C8: mriStep_Init with fixedstep false returns ARK_ILL_INPUT with the    *)
(* stepper memory and the inner stepper as they were: no table is built or *)
(* checked, and stagetypes, rkcoeffs, F, cvals, Xvecs and the forcing      *)
(* vectors are not allocated.                                              *)
C8_AdaptiveRejectedFirst ==
    [][AdaptiveInitStep =>
          /\ retval' = "ARK_ILL_INPUT"
          /\ errmsg' = "Adaptive outer time stepping is not currently supported"
          /\ step_mem' = step_mem
          /\ stepper' = stepper
          /\ step_mem'.stagetypes = NoVec /\ step_mem'.rkcoeffs = NoVec
          /\ step_mem'.F = NoVec /\ step_mem'.cvals = NULL /\ step_mem'.Xvecs = NULL
          /\ stepper'.forcing = NoVec]_vars

C8_Witness ==
    /\ lastcall = "mriStep_Init"
    /\ ~ark_mem.fixedstep
    /\ retval = "ARK_ILL_INPUT"
    /\ step_mem.MRIC = NullTable
    /\ step_mem.F = NoVec
    /\ stepper.forcing = NoVec

(* mriStep_FullRHS was the last call, with a mode in S, and no step has begun since. *)
FullRHSMode(S) ==
    lastcall = "mriStep_FullRHS" /\ mode \in S /\ pc \in {"ready", "advance", "failed"}

(* The slow RHS was computed: the inner stepper is asked only after that. *)
SlowDone == Len(log) >= 2

(* C9: mriStep_FullRHS stores the slow RHS in F[0] in the modes START and  *)
(* END only; in the mode OTHER it stores it in tempv2 and leaves F as it   *)
(* was; the inner stepper's full RHS is asked with the mode OTHER in all   *)
(* three, and on success f is the sum of the slow and the fast RHS.        *)
C9_SlowRhsDestination ==
    FullRHSMode({ARK_FULLRHS_START, ARK_FULLRHS_END, ARK_FULLRHS_OTHER}) =>
       /\ Len(log) >= 1 /\ log[1].ev = "fs" /\ step_mem.nfs = entry.nfs + 1
       /\ \A n \in DOMAIN log :
             log[n].ev = "inner_fullrhs" => log[n].is = ARK_FULLRHS_OTHER /\ n = 2
       /\ mode = ARK_FULLRHS_OTHER =>
             /\ step_mem.F = entry.F
             /\ ark_mem.tempv2 = IF SlowDone THEN fsVal(log[1].t, log[1].y)
                                 ELSE entry.tempv2
       /\ mode # ARK_FULLRHS_OTHER =>
             /\ ark_mem.tempv2 = entry.tempv2
             /\ step_mem.F[0] = IF SlowDone THEN fsVal(log[1].t, log[1].y)
                                ELSE entry.F[0]
             /\ \A j \in 1..(step_mem.stages - 1) : step_mem.F[j] = entry.F[j]
       /\ IF retval = "ARK_SUCCESS"
          THEN /\ Len(log) = 2 /\ log[2].ev = "inner_fullrhs"
               /\ log[2].t = log[1].t /\ log[2].y = log[1].y
               /\ fvec = fsVal(log[1].t, log[1].y) + ffVal(log[1].t, log[1].y)
          ELSE fvec = entry.fvec

C9_Witness ==
    /\ FullRHSMode({ARK_FULLRHS_OTHER})
    /\ retval = "ARK_SUCCESS"
    /\ ark_mem.tempv2 # step_mem.F[0]
    /\ step_mem.F[0] = entry.F[0]
    /\ fvec = ark_mem.tempv2 + ffVal(log[1].t, log[1].y)

(* C10: mriStep_FullRHS with a mode other than START, END and OTHER        *)
(* returns ARK_RHSFUNC_FAIL, calls neither fs nor the inner stepper, and   *)
(* leaves nfs, F, tempv2 and f as they were.                               *)
C10_UnknownModeFails ==
    (lastcall = "mriStep_FullRHS"
     /\ mode \notin {ARK_FULLRHS_START, ARK_FULLRHS_END, ARK_FULLRHS_OTHER}) =>
       /\ retval = "ARK_RHSFUNC_FAIL"
       /\ pc = "failed"
       /\ log = <<>>
       /\ step_mem.nfs = entry.nfs
       /\ step_mem.F = entry.F
       /\ ark_mem.tempv2 = entry.tempv2
       /\ fvec = entry.fvec

C10_Witness ==
    /\ lastcall = "mriStep_FullRHS"
    /\ mode = 3
    /\ retval = "ARK_RHSFUNC_FAIL"
    /\ log = <<>>
    /\ step_mem.nfs = entry.nfs
    /\ step_mem.nfs >= 1


(* The interpolation routine was called by mriStep_Predict and returned r. *)
PredictReturned(r) ==
    /\ lastcall = "mriStep_Predict"
    /\ step_mem.predictor \in 1..4
    /\ ark_mem.interp # NULL
    /\ log # <<>>
    /\ log[1].ret = r

(* C11 (as amended): in mriStep_Predict with predictor in 1..4 and an      *)
(* interpolation structure present, the error ARK_ILL_INPUT of the         *)
(* interpolation routine gives the trivial predictor zpred = y_n and a     *)
(* success return; every other error code is returned to the caller.       *)
C11_OnlyIllInputFallsBack ==
    /\ PredictReturned("ARK_ILL_INPUT") =>
          retval = "ARK_SUCCESS" /\ step_mem.zpred = <<ark_mem.yn>>
    /\ \A r \in PredictRet \ {"ARK_SUCCESS", "ARK_ILL_INPUT"} :
          PredictReturned(r) => retval = r

(* C11 as stated: every error gives the trivial predictor and success. *)
C11_EveryErrorFallsBack ==
    \A r \in PredictRet \ {"ARK_SUCCESS"} :
       PredictReturned(r) => retval = "ARK_SUCCESS" /\ step_mem.zpred = <<ark_mem.yn>>

C11_Witness ==
    /\ PredictReturned("ARK_ILL_INPUT")
    /\ step_mem.predictor = 4
    /\ retval = "ARK_SUCCESS"
    /\ step_mem.zpred = <<ark_mem.yn>>


(* The arguments of the last call of MRIStepCreate. *)
CreateArgs == log[1]

CreateBadArg ==
    \/ CreateArgs.fs = NULL
    \/ CreateArgs.y0 = NULL
    \/ CreateArgs.id \notin {"MRISTEP_ARKSTEP", "MRISTEP_CUSTOM"}
    \/ CreateArgs.handle = NULL
    \/ ~CreateArgs.nvectorOK

CreateLacksOps ==
    /\ ~CreateBadArg
    /\ CreateArgs.id = "MRISTEP_CUSTOM"
    /\ stepper.ops = NULL \/ stepper.evolve = NULL \/ stepper.fullrhs = NULL

(* C12 as stated: MRIStepCreate returns null on every bad argument and on  *)
(* an inner stepper without evolve or fullrhs; an argument check fails     *)
(* before anything is allocated; and whenever MRIStepCreate returns null,  *)
(* everything it allocated has been released.                              *)
C12_CreateFailureReleasesAll ==
    lastcall = "MRIStepCreate" =>
       /\ (CreateBadArg \/ CreateLacksOps => retval = NULL)
       /\ (CreateBadArg => heap = CreateArgs.heap)
       /\ (retval = NULL => heap = CreateArgs.heap)

(***************************************************************************)
(* C13: MRIStepReset changes none of the counters nfs, nsetups, nstlp and  *)
(* nls_iters, nor the coupling table, the stage types or any allocation    *)
(* (the whole of the stepper's memory, the inner stepper and the allocated *)
(* blocks stay as they were); the initialisation that follows it, of type  *)
(* RESET_INIT, returns ARK_SUCCESS and changes nothing either; and a       *)
(* second successful reset with the arguments of the first leaves the      *)
(* state of the first.                                                     *)
(***************************************************************************)
SameResetTwice(l) ==
    /\ Len(l) = 2
    /\ l[1] = l[2]
    /\ l[1].ev = "MRIStepReset"
    /\ l[1].ret = "ARK_SUCCESS"

C13_ResetPreserves ==
    [][/\ lastcall' = "MRIStepReset"
          => /\ step_mem' = step_mem
             /\ stepper' = stepper
             /\ heap' = heap
       /\ pc = "wasreset" /\ lastcall' = "mriStep_Init"
          => /\ retval' = "ARK_SUCCESS"
             /\ UNCHANGED <<step_mem, ark_mem, stepper, heap>>
       /\ lastcall' = "MRIStepReset" /\ SameResetTwice(log')
          => UNCHANGED <<step_mem, ark_mem, stepper, heap, pc, retval, is, fvec>>]_vars

(* Two equal successful resets after steps that evaluated fs and iterated  *)
(* the nonlinear solver.                                                   *)
C13_Witness ==
    /\ pc = "wasreset"
    /\ lastcall = "MRIStepReset"
    /\ SameResetTwice(log)
    /\ step_mem.nfs > 0
    /\ step_mem.nls_iters > 0
    /\ ark_mem.yn = log[2].y

(***************************************************************************)
(* C14: after a successful MRIStepReInit the counters nfs, nsetups, nstlp  *)
(* and nls_iters are all 0, whatever steps preceded it; a failed           *)
(* MRIStepReInit leaves fs and the counters as they were.                  *)
(***************************************************************************)
Counters(sm) == <<sm.nfs, sm.nsetups, sm.nstlp, sm.nls_iters>>

C14_ReInitZeroesCounters ==
    [][lastcall' = "MRIStepReInit"
          => IF retval' = "ARK_SUCCESS"
             THEN Counters(step_mem') = <<0, 0, 0, 0>>
             ELSE /\ step_mem'.fs = step_mem.fs
                  /\ Counters(step_mem') = Counters(step_mem)]_vars

(* What MRIStepReInit does to them: nfs is zeroed and the others are kept. *)
C14_ReInitZeroesNfsOnly ==
    [][lastcall' = "MRIStepReInit"
          => IF retval' = "ARK_SUCCESS"
             THEN /\ step_mem'.nfs = 0
                  /\ step_mem'.fs = log'[1].fs
                  /\ step_mem'.nsetups = step_mem.nsetups
                  /\ step_mem'.nstlp = step_mem.nstlp
                  /\ step_mem'.nls_iters = step_mem.nls_iters
             ELSE /\ step_mem'.fs = step_mem.fs
                  /\ Counters(step_mem') = Counters(step_mem)]_vars

C14_ReInitKeepsNlsIters ==
    /\ pc = "wasreinit"
    /\ retval = "ARK_SUCCESS"
    /\ step_mem.nfs = 0
    /\ step_mem.nls_iters > 0

(* mriStep_TakeStep is entered: it goes on to stage 1 or returns. *)
TakeStepEntered ==
    /\ pc = "ready"
    /\ \/ pc' = "stage"
       \/ pc' \in {"failed", "complete"} /\ lastcall' = "mriStep_TakeStep"

(* What the entry does given that the setup is called exactly when called  *)
(* holds: one call with guess 0, ARK_NLS_SETUP_FAIL for a negative return  *)
(* and ARK_NLS_SETUP_RECVR for a positive one, with no stage, callback or  *)
(* slow right-hand side in either case, and stage 1 otherwise.             *)
SetupOutcome(called) ==
    /\ Len(log') = (IF called THEN 1 ELSE 0)
    /\ called => /\ log'[1].ev = "nls_setup"
                 /\ log'[1].y = 0
                 /\ log'[1].ret < 0 <=> pc' = "failed" /\ retval' = "ARK_NLS_SETUP_FAIL"
                 /\ log'[1].ret > 0 <=> pc' = "failed" /\ retval' = "ARK_NLS_SETUP_RECVR"
    /\ pc' = "failed" => /\ called
                         /\ is' = 0
                         /\ UNCHANGED <<step_mem, ark_mem, stepper, fvec>>

(* C15 (as amended): at the start of mriStep_TakeStep the nonlinear        *)
(* solver's setup is called exactly when a nonlinear solver is attached    *)
(* and has a setup operation, whether or not the stepper owns it; a        *)
(* negative return gives ARK_NLS_SETUP_FAIL and a positive one             *)
(* ARK_NLS_SETUP_RECVR, in both cases before any stage, callback or        *)
(* evaluation of fs.                                                       *)
C15_SetupWhenSolverHasSetup ==
    [][TakeStepEntered =>
          SetupOutcome(step_mem.NLS # NULL /\ step_mem.NLSsetup # NULL)]_vars

(* C15 as stated: the setup is called exactly when ownNLS is true. *)
C15_SetupWhenOwned ==
    [][TakeStepEntered => SetupOutcome(step_mem.ownNLS)]_vars

(* The setup of a solver the user attached returned a positive value. *)
C15_Witness ==
    /\ pc = "failed"
    /\ lastcall = "mriStep_TakeStep"
    /\ retval = "ARK_NLS_SETUP_RECVR"
    /\ Len(log) = 1
    /\ log[1].ev = "nls_setup"
    /\ log[1].ret > 0
    /\ ~step_mem.ownNLS
    /\ step_mem.nfs = entry.nfs

(* The user's functions called during a step, and the code the step        *)
(* returns when each returns a negative value.                             *)
StepCallbacks == {"fs", "pre_inner_evolve", "post_inner_evolve", "stage_predict"}

NegativeCode(ev) ==
    CASE ev = "fs" -> "ARK_RHSFUNC_FAIL"
      [] ev = "pre_inner_evolve" -> "ARK_OUTERTOINNER_FAIL"
      [] ev = "post_inner_evolve" -> "ARK_INNERTOOUTER_FAIL"
      [] ev = "stage_predict" -> "ARK_USER_PREDICT_FAIL"

(* The step returned because the last call made, of a user's function,     *)
(* returned a nonzero value.                                               *)
CallbackFailed ==
    /\ pc = "failed"
    /\ lastcall = "mriStep_TakeStep"
    /\ Len(log) > 0
    /\ log[Len(log)].ev \in StepCallbacks
    /\ log[Len(log)].ret # 0

ForcingIntegral ==
    LET nm == step_mem.MRIC.nmat
        cdiff == step_mem.MRIC.c[is] - step_mem.MRIC.c[is - 1]
    IN  cdiff * ark_mem.h
          * SumFn([k \in 0..(nm - 1) |-> stepper.forcing[k].num * (RKDen(nm) \div (k + 1))], nm)

EffectiveUpdate ==
    ark_mem.h * SumFn([j \in 0..(is - 1) |-> step_mem.rkcoeffs[j] * step_mem.F[j]], is)

C17_ForcingConsistent ==
    pc = "forced" =>
       /\ retval = "ARK_SUCCESS"
       /\ \A k \in 0..(step_mem.MRIC.nmat - 1) :
             /\ stepper.forcing[k].den = stepper.forcing[0].den
             /\ stepper.forcing[k].den > 0
       /\ ForcingIntegral = stepper.forcing[0].den * EffectiveUpdate

(* A stage whose forcing has two nonzero vectors and whose update is not 0. *)
C17_Witness ==
    /\ pc = "forced"
    /\ step_mem.MRIC.nmat = 2
    /\ stepper.forcing[0].num # 0
    /\ stepper.forcing[1].num # 0
    /\ stepper.forcing[0].den > 1
    /\ EffectiveUpdate # 0

(* The vectors the stepper owns: F[i], sdata, zpred, zcor and forcing[k]. *)
OwnedVecs ==
    {ResizeVecs(step_mem)[n] : n \in DOMAIN ResizeVecs(step_mem)}
    \cup {Blk("forcing", k) : k \in 0..(stepper.nforcing - 1)}

Resized(v) == Cardinality({n \in DOMAIN log : log[n].vec = v})

ResizeDone ==
    /\ lastcall = "MRIStepResize"
    /\ retval = "ARK_SUCCESS"

(* C18: after a successful MRIStepResize each vector the stepper owns      *)
(* (F[i], sdata, zpred and zcor when allocated, forcing[k]) has been       *)
(* resized exactly once and no other vector has been resized, also when    *)
(* MRIStepInnerStepper_AddForcing has filled the vecs workspace with the   *)
(* caller's f and the forcing vectors.                                     *)
C18_ResizeOncePerOwnedVector ==
    ResizeDone =>
       /\ \A v \in OwnedVecs : Resized(v) = 1
       /\ \A n \in DOMAIN log : log[n].vec \in OwnedVecs

(* When the vecs workspace is empty the resize is made once per vector. *)
C18_OnceWithoutAliases ==
    ResizeDone /\ stepper.aliases = <<>> =>
       /\ \A v \in OwnedVecs : Resized(v) = 1
       /\ \A n \in DOMAIN log : log[n].vec \in OwnedVecs

(* After AddForcing each forcing vector is resized twice and the caller's  *)
(* f once.                                                                 *)
C18_AliasesResized ==
    /\ ResizeDone
    /\ stepper.aliases # <<>>
    /\ stepper.nforcing >= 1
    /\ \A k \in 0..(stepper.nforcing - 1) : Resized(Blk("forcing", k)) = 2
    /\ Resized(Blk("f", 0)) = 1

(* The arrays mriStepInnerStepper_AllocVecs allocates for the inner        *)
(* stepper: the forcing vectors and their array, vecs and vals.            *)
StepperArrays(h) == {b \in h : b.blk \in {"forcing", "vecs", "vals"}}

(* MRIStepFree has returned. *)
Freed ==
    /\ pc = "freed"
    /\ lastcall = "MRIStepFree"

(* C19: after MRIStepCreate, mriStep_Init and MRIStepFree none of the      *)
(* forcing vectors, nor the vecs and vals workspaces, that the             *)
(* initialisation allocated for the inner stepper is still allocated,      *)
(* for a wrapped ARKStep and for a custom inner stepper alike.             *)
C19_InitArraysFreedByFree ==
    Freed => StepperArrays(heap) = {}

(* For a wrapped ARKStep they are released. *)
C19_WrappedArraysFreed ==
    Freed /\ log[1].id = "MRISTEP_ARKSTEP" => StepperArrays(heap) = {}

(* A custom inner stepper keeps them after MRIStepFree. *)
C19_CustomArraysKept ==
    /\ Freed
    /\ log[1].id = "MRISTEP_CUSTOM"
    /\ Blk("vecs", 0) \in heap
    /\ Blk("vals", 0) \in heap
    /\ Blk("forcing", 0) \in heap

(* The blocks MRIStepInnerStepper_Create allocates. *)
StepperBlocks == {Blk("stepper", 0), Blk("ops", 0)}

InnerFreed ==
    /\ pc = "done"
    /\ lastcall = "MRIStepInnerStepper_Free"

InnerCreateFailed ==
    /\ lastcall = "MRIStepInnerStepper_Create"
    /\ retval # "ARK_SUCCESS"

(* C20: after MRIStepInnerStepper_Free neither the record nor the          *)
(* operations table that MRIStepInnerStepper_Create allocated is still     *)
(* allocated, and a MRIStepInnerStepper_Create that fails leaves nothing   *)
(* allocated and the handle null.                                          *)
C20_CreateFreePaired ==
    /\ InnerFreed => heap \cap StepperBlocks = {} /\ stepper.mem = NULL
    /\ InnerCreateFailed => heap \cap StepperBlocks = {} /\ stepper.mem = NULL

(* The record is always released by MRIStepInnerStepper_Free, and a        *)
(* failure of the first allocation leaves nothing.                         *)
C20_RecordFreed ==
    /\ InnerFreed => Blk("stepper", 0) \notin heap /\ stepper.mem = NULL
    /\ InnerCreateFailed /\ stepper.mem = NULL => heap = {}

(* The operations table outlives MRIStepInnerStepper_Free. *)
C20_OpsLeaked ==
    /\ InnerFreed
    /\ heap = {Blk("ops", 0)}

(* The second allocation failed: the record is allocated, the handle set. *)
C20_FailedCreateKeepsRecord ==
    /\ InnerCreateFailed
    /\ stepper.mem # NULL
    /\ heap = {Blk("stepper", 0)}

(* The place of an event in its stage: the stage routine, ProcessStage,    *)
(* the reset of the inner stepper, the slow right-hand side.               *)
EventRank(ev) ==
    IF ev = "nls_setup" THEN 0
    ELSE IF ev = "ProcessStage" THEN 2
    ELSE IF ev \in {"Reset", "reset"} THEN 3
    ELSE IF ev = "fs" THEN 4
    ELSE 1

Before(e, f) == e.is < f.is \/ (e.is = f.is /\ EventRank(e.ev) <= EventRank(f.ev))

StageEvents(i, rank) == {n \in DOMAIN log : log[n].is = i /\ EventRank(log[n].ev) = rank}

(* The events of the step so far are in the order of the stages and,       *)
(* within a stage, in the order of EventRank; ProcessStage is called at    *)
(* most once per stage and fs never at the last stage.                     *)
StageOrder ==
    InTakeStep =>
       /\ \A m, n \in DOMAIN log : m < n => Before(log[m], log[n])
       /\ \A n \in DOMAIN log : log[n].is <= is
       /\ \A i \in 1..(step_mem.stages - 1) :
             /\ Cardinality(StageEvents(i, 2)) <= 1
             /\ ark_mem.ProcessStage = NULL => StageEvents(i, 2) = {}
       /\ StageEvents(step_mem.stages - 1, 4) = {}

(* The step goes through its places in order, and leaves at a failure. *)
StageSequence ==
    /\ pc = "stage" => pc' \in {"process", "failed"} /\ is' = is
    /\ pc = "process" =>
          /\ pc' \in {"reset", "failed"} /\ is' = is
          /\ ark_mem.ProcessStage # NULL =>
                /\ Len(log') = Len(log) + 1
                /\ log'[Len(log')].ev = "ProcessStage"
                /\ log'[Len(log')].ret # 0 <=> pc' = "failed"
          /\ pc' = "failed" =>
                /\ retval' = "ARK_POSTPROCESS_STAGE_FAIL"
                /\ \A n \in DOMAIN log' :
                      log'[n].is = is => EventRank(log'[n].ev) <= 2
                /\ UNCHANGED <<step_mem, stepper>>
    /\ pc = "reset" =>
          /\ pc' \in {"rhs", "failed"} /\ is' = is
          /\ pc' = "failed" =>
                /\ retval' = "ARK_INNERSTEP_FAIL"
                /\ StageEvents(is, 4) = {}
                /\ UNCHANGED step_mem
    /\ pc = "rhs" =>
          /\ pc' \in {"stage", "complete", "failed"}
          /\ pc' = "stage" => is' = is + 1 /\ is' < step_mem.stages
          /\ pc' = "complete" => is' = step_mem.stages
          /\ pc' = "failed" =>
                /\ is' = is
                /\ retval' \in {"ARK_RHSFUNC_FAIL", "ARK_UNREC_RHSFUNC_ERR"}
    /\ pc = "failed" /\ lastcall = "mriStep_TakeStep" => UNCHANGED log

(***************************************************************************)
(* C21: within every stage of mriStep_TakeStep the events occur in the     *)
(* order stage routine, ProcessStage (if set), reset of the inner stepper  *)
(* (if required), fs into F[is] (only if is < stages-1); when one of them  *)
(* fails the step returns and no later event of the stage or of a later    *)
(* stage occurs; a nonzero return of ProcessStage gives                    *)
(* ARK_POSTPROCESS_STAGE_FAIL with neither the reset nor fs called.        *)
(***************************************************************************)
C21_StageEventOrder ==
    /\ []StageOrder
    /\ [][StageSequence]_vars

(* ProcessStage failed at the second stage, which would have been reset,   *)
(* after the first stage ran in full.                                      *)
C21_Witness ==
    /\ pc = "failed"
    /\ lastcall = "mriStep_TakeStep"
    /\ retval = "ARK_POSTPROCESS_STAGE_FAIL"
    /\ is = 2
    /\ log[Len(log)].ev = "ProcessStage"
    /\ log[Len(log)].is = 2
    /\ StageEvents(2, 3) = {}
    /\ StageEvents(1, 2) # {}
    /\ StageEvents(1, 3) # {}
    /\ StageEvents(1, 4) # {}

(* Stage i of the step has been run (its stage routine has returned). *)
StageRan(i) ==
    /\ InTakeStep
    /\ i \in 1..(step_mem.stages - 1)
    /\ i < is \/ (i = is /\ pc # "stage")

TheCall(ev, i) == log[CHOOSE n \in EvIdx(ev, i) : TRUE]

(* forcing[k] = (1/cdiff) * sum_{j<i} G[k][i][j] * F[j], from the table    *)
(* and the slow right-hand sides.                                          *)
ExpectedForcing(i) ==
    [k \in 0..(step_mem.MRIC.nmat - 1) |->
        [num |-> SumOver([j \in 0..(i - 1) |-> step_mem.MRIC.G[k][i][j] * step_mem.F[j]]),
         den |-> step_mem.MRIC.c[i] - step_mem.MRIC.c[i - 1]]]

(* The calls of fast stage i, when it has been run. *)
FastStageCalls(i) ==
    LET hasPre  == step_mem.pre_inner_evolve # NULL
        hasPost == step_mem.post_inner_evolve # NULL
        preOK   == ~hasPre \/ TheCall("pre_inner_evolve", i).ret = 0
        t0      == ark_mem.tn + step_mem.MRIC.c[i - 1] * ark_mem.h
        t1      == ark_mem.tn + step_mem.MRIC.c[i] * ark_mem.h
    IN  /\ Count("pre_inner_evolve", i) = (IF hasPre THEN 1 ELSE 0)
        /\ Count("evolve", i) = (IF preOK THEN 1 ELSE 0)
        /\ hasPre => /\ TheCall("pre_inner_evolve", i).t = t0
                     /\ TheCall("pre_inner_evolve", i).forcing = ExpectedForcing(i)
        /\ ~preOK => /\ pc = "failed" /\ is = i
                     /\ retval = "ARK_OUTERTOINNER_FAIL"
                     /\ Count("post_inner_evolve", i) = 0
        /\ preOK =>
              LET e == TheCall("evolve", i)
              IN  /\ e.t = t0 /\ e.tout = t1
                  /\ e.tshift = t0
                  /\ e.tscale = (step_mem.MRIC.c[i] - step_mem.MRIC.c[i - 1]) * ark_mem.h
                  /\ \A m \in EvIdx("pre_inner_evolve", i), n \in EvIdx("evolve", i) : m < n
                  /\ \A m \in EvIdx("evolve", i), n \in EvIdx("post_inner_evolve", i) : m < n
                  /\ Count("post_inner_evolve", i) = (IF hasPost /\ e.ret >= 0 THEN 1 ELSE 0)
                  /\ e.ret < 0 => /\ pc = "failed" /\ is = i
                                  /\ retval = "ARK_INNERSTEP_FAIL"
                  /\ Count("post_inner_evolve", i) = 1 =>
                        TheCall("post_inner_evolve", i).t = t1

(***************************************************************************)
(* C22: in an ERK_FAST stage the forcing vectors are assembled and         *)
(* tshift = t_n + c[is-1]*h and tscale = (c[is]-c[is-1])*h are stored,     *)
(* then pre_inner_evolve is called (if set), then the evolve of the inner  *)
(* stepper from t_n + c[is-1]*h to t_n + c[is]*h, then post_inner_evolve   *)
(* (if set); a nonzero return of pre_inner_evolve prevents the evolve, and *)
(* a negative return of the evolve gives ARK_INNERSTEP_FAIL without        *)
(* post_inner_evolve being called.                                         *)
(***************************************************************************)
C22_FastStageOrder ==
    \A i \in 1..(MaxStages - 1) :
       StageRan(i) /\ step_mem.stagetypes[i] = "MRISTAGE_ERK_FAST" => FastStageCalls(i)

(* The evolve of a fast stage with both functions set returned a negative  *)
(* value.                                                                  *)
C22_Witness ==
    /\ pc = "failed"
    /\ lastcall = "mriStep_TakeStep"
    /\ retval = "ARK_INNERSTEP_FAIL"
    /\ step_mem.pre_inner_evolve # NULL
    /\ step_mem.post_inner_evolve # NULL
    /\ Count("pre_inner_evolve", is) = 1
    /\ Count("evolve", is) = 1
    /\ TheCall("evolve", is).ret < 0
    /\ Count("post_inner_evolve", is) = 0

(***************************************************************************)
(* C23: for every table and every i in 1..stages-1, mriStep_StageType      *)
(* returns DIRK_FAST when Gii > tol and cdiff > tol, DIRK_NOFAST when      *)
(* Gii > tol and cdiff <= tol, ERK_FAST when Gii <= tol and cdiff > tol,   *)
(* ERK_NOFAST when Gii <= tol and cdiff <= tol, with                       *)
(* Gii = sum_k |G[k][i][i]| and cdiff = c[i] - c[i-1]; for an index        *)
(* outside 1..stages-1 it returns ARK_INVALID_TABLE.                       *)
(***************************************************************************)
C23_StageTypeTable ==
    pc = "typed" =>
       LET T == step_mem.MRIC
       IN  IF is \notin 1..(T.stages - 1) THEN retval = "ARK_INVALID_TABLE"
           ELSE LET Gii == DiagMass(T, is)
                    cdiff == T.c[is] - T.c[is - 1]
                IN  /\ (Gii > tol /\ cdiff > tol) => retval = "MRISTAGE_DIRK_FAST"
                    /\ (Gii > tol /\ cdiff <= tol) => retval = "MRISTAGE_DIRK_NOFAST"
                    /\ (Gii <= tol /\ cdiff > tol) => retval = "MRISTAGE_ERK_FAST"
                    /\ (Gii <= tol /\ cdiff <= tol) => retval = "MRISTAGE_ERK_NOFAST"

(* A stage whose diagonal mass and increment are both exactly tol. *)
C23_Witness ==
    /\ pc = "typed"
    /\ is \in 1..(step_mem.stages - 1)
    /\ DiagMass(step_mem.MRIC, is) = tol
    /\ step_mem.MRIC.c[is] - step_mem.MRIC.c[is - 1] = tol
    /\ retval = "MRISTAGE_ERK_NOFAST"

(***************************************************************************)
(* C24: with predictor = 4, for implicit stage i the bootstrap predictor   *)
(* uses a previous stage j < i whose abscissa c[j] is the largest among    *)
(* the nonzero abscissae of the stages before i, whether or not it is less *)
(* than c[i]; when every stage before i has abscissa zero the trivial      *)
(* predictor zpred = y_n is used and no interpolation routine is called.   *)
(***************************************************************************)
BootstrapCase ==
    /\ pc = "predicted"
    /\ step_mem.predictor = 4
    /\ ark_mem.interp # NULL
    /\ ~ark_mem.initsetup

(* The prediction was made from stage j. *)
PredictedFrom(j) ==
    /\ log # <<>>
    /\ log[1].ev = "arkPredict"
    /\ log[1].ret = "ARK_SUCCESS" =>
          step_mem.zpred[1] = interpVal(ark_mem, step_mem.MRIC.c[step_mem.istage] + step_mem.F[j])

TrivialUsed == log = <<>> /\ step_mem.zpred[1] = ark_mem.yn /\ retval = "ARK_SUCCESS"

(* The stages before i that qualify, by the abscissae alone. *)
NonzeroBefore(i) == {j \in 0..(i - 1) : step_mem.MRIC.c[j] # 0}

BelowBefore(i) == {j \in NonzeroBefore(i) : step_mem.MRIC.c[j] < step_mem.MRIC.c[i]}

Largest(Q) == {j \in Q : \A k \in Q : step_mem.MRIC.c[k] <= step_mem.MRIC.c[j]}

C24_NoStageBelowYetInterpolated ==
    /\ BootstrapCase
    /\ BelowBefore(step_mem.istage) = {}
    /\ log # <<>>
    /\ log[1].ret = "ARK_SUCCESS"
    /\ step_mem.zpred[1] # ark_mem.yn

(***************************************************************************)
(* C25: when the evolve of the inner stepper is called for fast stage i,   *)
(* the stepper holds nforcing = nmat forcing vectors with                  *)
(* forcing[k] = (1/cdiff) * sum_{j<i} G[k][i][j] * F[j] for k = 0..nmat-1  *)
(* and cdiff = c[i] - c[i-1], and the stage leaves every F[j] as it was.   *)
(***************************************************************************)
ForcingAtEvolve ==
    InTakeStep =>
       \A n \in DOMAIN log :
          log[n].ev = "evolve" =>
             /\ log[n].nforcing = step_mem.MRIC.nmat
             /\ DOMAIN log[n].forcing = 0..(step_mem.MRIC.nmat - 1)
             /\ log[n].forcing = ExpectedForcing(log[n].is)

FastStageKeepsF ==
    (pc = "stage" /\ step_mem.stagetypes[is] = "MRISTAGE_ERK_FAST") =>
       step_mem'.F = step_mem.F

C25_ForcingAtEvolve == []ForcingAtEvolve /\ [][FastStageKeepsF]_vars

(* Two forcing vectors that differ, from two nonzero slow right-hand sides. *)
C25_Witness ==
    /\ InTakeStep
    /\ step_mem.MRIC.nmat = 2
    /\ is = 2
    /\ Count("evolve", 2) = 1
    /\ TheCall("evolve", 2).nforcing = 2
    /\ TheCall("evolve", 2).forcing[0].num # 0
    /\ TheCall("evolve", 2).forcing[1].num # TheCall("evolve", 2).forcing[0].num
    /\ step_mem.F[0] # 0
    /\ step_mem.F[1] # 0

(***************************************************************************)
(* C26: every table accepted by mriStep_CheckCoupling has stages >= 2      *)
(* and, provided (stages+1)*tol < 1, at least one ERK_FAST stage, so that  *)
(* every successful mriStep_TakeStep with such a table calls the evolve    *)
(* of the inner stepper at least once.                                     *)
(***************************************************************************)
(* Stage i has no diagonal coupling and a time increment, on the table. *)
FastOnTable(i) ==
    /\ DiagMass(step_mem.MRIC, i) <= tol
    /\ step_mem.MRIC.c[i] - step_mem.MRIC.c[i - 1] > tol

EvolveCalls == {n \in DOMAIN log : log[n].ev = "evolve"}

(* With the table accepted, roomy means the stage count is small enough. *)
AcceptedHasFastStage(roomy) ==
    /\ InitOK => /\ step_mem.stages >= 2
                 /\ roomy => \E i \in 1..(step_mem.stages - 1) : FastOnTable(i)
    /\ TakeStepDone /\ roomy => EvolveCalls # {}

C26_FastStageWhenStagesPlus1 ==
    AcceptedHasFastStage((step_mem.stages + 1) * tol < ONE)

(* C26 as stated: the proviso is (stages-1)*tol < 1. *)
C26_FastStageWhenStagesMinus1 ==
    AcceptedHasFastStage((step_mem.stages - 1) * tol < ONE)

(* A successful step of a two-stage table, whose only stage is fast. *)
C26_Witness ==
    /\ TakeStepDone
    /\ step_mem.stages = 2
    /\ (step_mem.stages + 1) * tol < ONE
    /\ FastOnTable(1)
    /\ Count("evolve", 1) = 1

(* A successful step of an accepted three-stage table without a fast stage, *)
(* in which the inner stepper was not evolved.                              *)
C26_StepWithoutEvolve ==
    /\ TakeStepDone
    /\ step_mem.stages = 3
    /\ (step_mem.stages - 1) * tol < ONE
    /\ \A i \in 1..2 : ~FastOnTable(i)
    /\ EvolveCalls = {}

(***************************************************************************)
(* C27: in an ERK_FAST stage a positive return of the evolve is a success: *)
(* post_inner_evolve is still called (if set) and the step goes on unless  *)
(* post_inner_evolve fails; the stage gives ARK_INNERSTEP_FAIL exactly     *)
(* when the evolve returned a negative value; and the value the evolve     *)
(* returned, positive or not, is the last_flag of the inner stepper when   *)
(* the stage ends.                                                         *)
(***************************************************************************)
NewCalls(ev) == {n \in DOMAIN log' : n > Len(log) /\ log'[n].ev = ev}

EvolveOutcome(e) ==
    /\ stepper'.last_flag = e.ret
    /\ (pc' = "failed" /\ retval' = "ARK_INNERSTEP_FAIL") <=> e.ret < 0
    /\ e.ret > 0 =>
          /\ Cardinality(NewCalls("post_inner_evolve")) =
                (IF step_mem.post_inner_evolve # NULL THEN 1 ELSE 0)
          /\ \A n \in NewCalls("post_inner_evolve") :
                (log'[n].ret # 0) <=> (pc' = "failed" /\ retval' = "ARK_INNERTOOUTER_FAIL")
          /\ NewCalls("post_inner_evolve") = {} => pc' # "failed"
          /\ pc' # "failed" => ark_mem'.ycur = evolveVal(e.t, e.tout, e.y, e.forcing, e.nforcing)

PositiveEvolveGoesOn ==
    (pc = "stage" /\ step_mem.stagetypes[is] = "MRISTAGE_ERK_FAST") =>
       \A n \in NewCalls("evolve") : EvolveOutcome(log'[n])

C27_PositiveEvolveIsSuccess == [][PositiveEvolveGoesOn]_vars

(* The evolve of stage 1 returned a positive value, post_inner_evolve was *)
(* called and the step has reached stage 2.                               *)
C27_Witness ==
    /\ InTakeStep
    /\ pc = "stage"
    /\ is = 2
    /\ Count("evolve", 1) = 1
    /\ TheCall("evolve", 1).ret > 0
    /\ Count("post_inner_evolve", 1) = 1
    /\ TheCall("post_inner_evolve", 1).ret = 0

(***************************************************************************)
(* C28: in every state reached through MRIStepCreate, mriStep_Init,        *)
(* MRIStepResize and MRIStepFree, ownNLS implies that a nonlinear solver   *)
(* is attached, and the nonlinear solver the driver created is freed: none *)
(* is left allocated when MRIStepFree has returned.                        *)
(***************************************************************************)
OwnedSolverAttached == step_mem.ownNLS => step_mem.NLS # NULL

C28_DriverSolverFreed ==
    /\ OwnedSolverAttached
    /\ pc = "freed" => Blk("NLS", 0) \notin heap

(* MRIStepResize destroyed the owned solver, created a new one and failed  *)
(* to attach it; MRIStepFree has returned and the new solver is allocated. *)
C28_SolverLeftAfterResize ==
    /\ pc = "freed"
    /\ dense = 1
    /\ log[1].ev = "MRIStepFree"
    /\ Blk("NLS", 0) \in log[1].heap
    /\ Blk("NLS", 0) \in heap
    /\ ~step_mem.ownNLS

(***************************************************************************)
(* C29: the memory of every linear solver attached with                    *)
(* mriStep_AttachLinsol is released by its lfree before the teardown is    *)
(* over, on replacement or in MRIStepFree: while the stepper memory lives  *)
(* the only linear solver memory allocated is that of the solver attached, *)
(* with its lfree, and none is allocated once MRIStepFree has returned.    *)
(***************************************************************************)
LinsolAllocated == {m \in LinsolMem : Blk(m, 0) \in heap}

C29_LinsolFreedOnce ==
    /\ pc = "freed" => LinsolAllocated = {}
    /\ pc # "freed" =>
          \A m \in LinsolAllocated : step_mem.lmem = m /\ step_mem.lfree # NULL

(* mriStep_Init on an explicit method has dropped lfree and lmem, and the *)
(* memory of the solver is allocated still after MRIStepFree.             *)
C29_LinsolDroppedByInit ==
    /\ pc = "freed"
    /\ Blk("lmem2", 0) \in heap
    /\ Blk("lmem", 0) \notin heap
    /\ step_mem.lfree = NULL

(* The linear solver of an implicit method is released by MRIStepFree. *)
C29_LinsolFreedWhenImplicit ==
    /\ pc = "freed"
    /\ log[1].ev = "MRIStepFree"
    /\ Blk("lmem2", 0) \in log[1].heap
    /\ LinsolAllocated = {}
    /\ step_mem.lfree # NULL

(***************************************************************************)
(* C30: in mriStep_TakeStep stage is uses only the slow right-hand sides   *)
(* F[j] with j < is (in the forcing, the ERK update, the stage data of a   *)
(* DIRK stage and the bootstrap predictor); every F[j] with 1 <= j < is    *)
(* was written earlier in the same step by fs at t_n + c[j]*h and the      *)
(* solution of stage j; and the step writes neither F[0] nor F[stages-1].  *)
(***************************************************************************)
(* h * sum_{j<i} coef[j] * F[j], from the right-hand sides before stage i. *)
SlowSum(i, coef) ==
    SumOver([j \in 0..(i - 1) |-> ark_mem.h * coef[j] * step_mem.F[j]])

StageUsesEarlierF ==
    pc = "stage" =>
       LET ty == step_mem.stagetypes[is]
       IN  /\ ty = "MRISTAGE_ERK_FAST" =>
                 \A k \in 0..(step_mem.MRIC.nmat - 1) :
                    stepper'.forcing[k] = ExpectedForcing(is)[k]
           /\ (ty = "MRISTAGE_ERK_NOFAST" /\ pc' # "failed") =>
                 ark_mem'.ycur = ark_mem.ycur + SlowSum(is, step_mem'.rkcoeffs)
           /\ (ty = "MRISTAGE_DIRK_NOFAST" /\ NewCalls("nls") # {}) =>
                 /\ step_mem'.sdata[1] = ark_mem.ycur - step_mem'.zpred[1]
                                           + SlowSum(is, step_mem'.rkcoeffs)
                 /\ (NewCalls("stage_predict") = {} /\ step_mem.predictor = 4
                       /\ step_mem'.zpred[1] # ark_mem.yn) =>
                       \E j \in 0..(is - 1) :
                          step_mem'.zpred[1] =
                             interpVal(ark_mem, step_mem.MRIC.c[is] + step_mem.F[j])

(* F[j] of a stage j before the last one that is complete. *)
EarlierFWritten ==
    InTakeStep =>
       \A j \in 1..(step_mem.stages - 2) :
          j < is =>
             /\ Count("fs", j) = 1
             /\ TheCall("fs", j).ret = 0
             /\ TheCall("fs", j).t = StageT(j)
             /\ step_mem.F[j] = fsVal(StageT(j), TheCall("fs", j).y)
             /\ \A n \in DOMAIN log :
                   (\A m \in EvIdx("fs", j) : n > m) => log[n].is > j

FirstAndLastFKept ==
    (pc \in {"stage", "process", "reset", "rhs"}) =>
       /\ step_mem'.F[0] = step_mem.F[0]
       /\ step_mem'.F[step_mem.stages - 1] = step_mem.F[step_mem.stages - 1]
       /\ \A j \in DOMAIN step_mem.F :
             step_mem'.F[j] # step_mem.F[j] => pc = "rhs" /\ j = is

=============================================================================
